---- MODULE Spec2Model ----
(***************************************************************************)
(* A model of the Real-Time Sensor Data Logger: the buffered rotating CSV  *)
(* logger (src/src/data_logger.c, lines 1-318), the statistics and moving  *)
(* average primitives (lines 319-718) and the two monitoring loops with    *)
(* their signal handler (lines 719-1105).                                  *)
(*                                                                         *)
(* Every C function is an operator from a "world" (the logger structure,   *)
(* the files on disk, the number of open FILE handles) to a new world and  *)
(* a return code; an action applies one call of the public API.            *)
(***************************************************************************)
EXTENDS Integers, Sequences, FiniteSets, TLC

\* ------------------------------------------------------------------ bounds
\* Readings appended in one session of the API-level specifications.
MaxReadings == 3
\* The clock advances in steps of TickMs milliseconds, up to MaxClockMs.
TickMs == 500
MaxClockMs == 1000
\* Scaled stand-in for the 1024 * 1024 bytes of one MB (data_logger.c:173),
\* so that a few records cross the rotation threshold.
BytesPerMB == 128
\* Direct rotate_log_file calls are made while fewer rotations have happened.
MaxRotations == 2
\* Monitoring sessions last 1..MaxDuration seconds.
MaxDuration == 2
\* Outcomes of upcoming fprintf calls that are fixed in advance.
MaxFaultLen == 2
\* Values fed to the statistics and the moving average on their own, and
\* the largest window of the moving average.
MaxSamples == 4
MaxWindow == 2
\* Times stdio calls start failing in one session, after init_data_logger.
MaxFaultEpisodes == 1
\* Readings of a stream sent through the analysis pipeline of the bridge loop.
MaxStream == 6
\* Readings of a series handed to the trend and the frequency analysis, and
\* the largest window of the trend analysis.
MaxSeries == 5
MaxTrendWindow == 3
\* Readings retained by a session whose vibration is classified at its end.
MaxBridgeSamples == 10

VARIABLES
    logger,      \* data_logger_t (data_logger.h:18-27)
    disk,        \* the files created so far, in creation order: [name, lines]
    open_count,  \* number of FILE handles currently open for writing
    peak_open,   \* largest number of handles that were open at the same time
    clock,       \* wall clock, in milliseconds
    io_ok,       \* the outcomes of the upcoming fopen and fprintf calls, and
                 \* how many times failures have set in
    appended,    \* the readings log_sensor_data has accepted, in order
    phase,       \* "open" | "closed" | "crashed": the logger's life
    ret,         \* the return code of the last API call
    rotations,   \* number of rotate_log_file calls that opened a new file
    oob,         \* whether a write past the end of the log buffer has happened
    running,     \* the flag the signal handler clears (data_logger.c:732)
    pc,          \* where a monitoring loop is: "api" when none is running
    sess,        \* a monitoring session's parameters and counters, the readings
                 \* of the current tick, whether the hardware failed on it,
                 \* and what the last status line showed
    stats,       \* the statistics accumulators of the session
    moving_avg,  \* the moving-average window of the bridge session
    vibration_data  \* the retained sample array of the bridge session

logvars == <<logger, disk, open_count, peak_open, rotations, oob>>

loopvars == <<running, pc, sess, stats, moving_avg, vibration_data>>

vars == <<logger, disk, open_count, peak_open, clock, io_ok, appended, phase,
          ret, rotations, oob, running, pc, sess, stats, moving_avg,
          vibration_data>>

\* ------------------------------------------------------------ time (utils.c)
\* get_current_time: the clock as seconds and nanoseconds.
get_current_time(ms) ==
    [timestamp |-> ms \div 1000, nanoseconds |-> (ms % 1000) * 1000000]

\* time(NULL): the clock in whole seconds.
time_now(ms) == ms \div 1000

\* time_diff_ms: difference of two precise times in milliseconds.
time_diff_ms(start, end) ==
    ((end.timestamp - start.timestamp) * 1000)
        + ((end.nanoseconds - start.nanoseconds) \div 1000000)

\* format_timestamp: "YYYY-MM-DD HH:MM:SS.ffffff"; the date and time of day
\* are those of the second, the fraction is in microseconds.
format_timestamp(t) == [sec |-> t.timestamp, usec |-> t.nanoseconds \div 1000]

\* Bytes of a formatted timestamp: 4+1+2+1+2 +1+ 2+1+2+1+2 +1+ 6.
TimestampBytes == 26

\* ----------------------------------------------------------------- readings
\* sensor_type_names of flush_logger_buffer, "Unknown" outside 0..7.
type_name(type) ==
    IF type >= 0 /\ type < 8
    THEN <<"Temperature", "Vibration", "Strain", "Humidity",
           "Pressure", "Accel_X", "Accel_Y", "Accel_Z">>[type + 1]
    ELSE "Unknown"

\* Number of decimal digits of a natural number.
RECURSIVE Digits(_)
Digits(n) == IF n < 10 THEN 1 ELSE 1 + Digits(n \div 10)

\* Bytes "%.6f" prints for an integral value: sign, digits, '.', 6 decimals.
ValueBytes(v) == (IF v < 0 THEN 1 ELSE 0) + Digits(IF v < 0 THEN -v ELSE v) + 7

\* Bytes of the unit strings of sensor_metadata (UTF-8), written in ASCII here:
\* "degC" is the 3 bytes of the degree sign and C, "m/s2" the 5 bytes of m/s
\* and the superscript two.
UnitBytes(u) ==
    CASE u = "degC" -> 3
      [] u = "m/s2" -> 5
      [] u = "%"    -> 1
      [] u = "hPa"  -> 3
      [] OTHER      -> Len(u)

\* The readings the simulator produces for a sensor type (sensor_metadata and
\* generate_bridge_vibration_data's description).
SENSOR_TEMPERATURE == 0
SENSOR_VIBRATION == 1
SENSOR_HUMIDITY == 3
SENSOR_PRESSURE == 4

sensor_unit(type) ==
    CASE type = SENSOR_TEMPERATURE -> "degC"
      [] type = SENSOR_VIBRATION   -> "m/s2"
      [] type = SENSOR_HUMIDITY    -> "%"
      [] type = SENSOR_PRESSURE    -> "hPa"
      [] OTHER                     -> "N/A"

sensor_description(type) ==
    CASE type = SENSOR_TEMPERATURE -> "Temperature"
      [] type = SENSOR_VIBRATION   -> "Bridge Vibration"
      [] type = SENSOR_HUMIDITY    -> "Relative Humidity"
      [] type = SENSOR_PRESSURE    -> "Atmospheric Pressure"
      [] OTHER                     -> "Invalid sensor type"

\* A sensor_data_t; seq is the reading's position in the session's stream,
\* which tells readings of equal content apart.
Reading(seq, type, value, ms) ==
    [seq |-> seq, type |-> type, value |-> value,
     timestamp |-> get_current_time(ms),
     unit |-> sensor_unit(type), description |-> sensor_description(type)]

\* ------------------------------------------------------------ lines of a file
\* The header record written by write_csv_header.
HeaderLine ==
    [kind |-> "header", seq |-> 0, timestamp |-> [sec |-> 0, usec |-> 0],
     sensor_type |-> "Sensor_Type", value |-> 0, unit |-> "Unit",
     description |-> "Description"]

\* Bytes of "Timestamp,Sensor_Type,Value,Unit,Description\n".
HeaderBytes == 45

\* The data record flush_logger_buffer's fprintf writes for a reading.
CsvLine(d) ==
    [kind |-> "data", seq |-> d.seq, timestamp |-> format_timestamp(d.timestamp),
     sensor_type |-> type_name(d.type), value |-> d.value, unit |-> d.unit,
     description |-> d.description]

\* Bytes of a line: the fields, four commas and the newline.
LineBytes(l) ==
    IF l.kind = "header" THEN HeaderBytes
    ELSE TimestampBytes + 1 + Len(l.sensor_type) + 1 + ValueBytes(l.value) + 1
             + UnitBytes(l.unit) + 1 + Len(l.description) + 1

RECURSIVE FileBytes(_)
FileBytes(lines) ==
    IF lines = <<>> THEN 0 ELSE LineBytes(Head(lines)) + FileBytes(Tail(lines))

\* -------------------------------------------------------------- file names
\* A file name <directory>/<piece>_<piece>..._<date>_<time>.csv: the pieces of
\* the base name between its underscores, and the second the stamp is of.
MakeFilename(directory, base, sec) ==
    [directory |-> directory, base |-> base, stamp |-> sec]

\* rotate_log_file's base name: the text after the last '/', cut at its FIRST
\* underscore, so only the first piece of the name is kept.
BaseNameOf(filename) == <<Head(filename.base)>>

\* ----------------------------------------------------------------- stdio
NULL == 0

\* The outcome of the next call of a stdio function whose upcoming outcomes
\* are q, and the outcomes left after it: calls succeed where none is listed.
NextOutcome(q) == IF q = <<>> THEN TRUE ELSE Head(q)
Rest(q) == IF q = <<>> THEN <<>> ELSE Tail(q)

\* No stdio call is going to fail.
NoFaults == [fopen |-> <<>>, fprintf |-> <<>>, episodes |-> 0]

\* fopen(name, "w"): creates the file, or truncates the file of that name.
\* Returns the world and the handle (the file's place on the disk).
Fopen(w, name) ==
    LET u == [w EXCEPT !.io_ok.fopen = Rest(@)]
    IN IF ~NextOutcome(w.io_ok.fopen) THEN [w |-> u, fp |-> NULL]
       ELSE LET hit == {i \in 1..Len(u.disk) : u.disk[i].name = name}
                n == u.open_count + 1
                opened == [u EXCEPT !.open_count = n,
                                    !.peak_open = IF n > @ THEN n ELSE @]
            IN IF hit /= {}
               THEN LET i == CHOOSE i \in hit : TRUE
                    IN [w |-> [opened EXCEPT !.disk[i].lines = <<>>], fp |-> i]
               ELSE [w |-> [opened EXCEPT
                              !.disk = Append(@, [name |-> name, lines |-> <<>>])],
                     fp |-> Len(u.disk) + 1]

\* fclose.
Fclose(w) == [w EXCEPT !.open_count = @ - 1]

\* fprintf of one line to the logger's file: the bytes written, or -1.
Fprintf(w, line) ==
    LET u == [w EXCEPT !.io_ok.fprintf = Rest(@)]
    IN IF ~NextOutcome(w.io_ok.fprintf) THEN [w |-> u, bytes_written |-> -1]
       ELSE [w |-> [u EXCEPT !.disk[u.logger.file].lines = Append(@, line)],
             bytes_written |-> LineBytes(line)]

\* ------------------------------------------------------------------ logger
\* The world the logger's functions act on.
World ==
    [logger |-> logger, disk |-> disk, open_count |-> open_count,
     peak_open |-> peak_open, clock |-> clock, io_ok |-> io_ok,
     rotations |-> rotations, oob |-> oob]

\* logger_config_t as init_data_logger sets it (config.filename is never
\* set or read).
DefaultConfig ==
    [max_file_size_mb |-> 10, auto_rotate |-> 1, buffer_size |-> 100,
     flush_interval_ms |-> 1000, directory |-> "data"]

\* Mutant of write_csv_header: the header is written and not counted.
write_csv_header_uncounted(w) ==
    IF w.logger.file = NULL THEN [w |-> w, ret |-> -1]
    ELSE LET f == Fprintf(w, HeaderLine)
         IN [w |-> f.w, ret |-> IF f.bytes_written > 0 THEN 0 ELSE -1]

\* write_csv_header: the header line, counted into current_file_size.
write_csv_header(w) ==
    IF w.logger.file = NULL THEN [w |-> w, ret |-> -1]
    ELSE LET f == Fprintf(w, HeaderLine)
         IN IF f.bytes_written > 0
            THEN [w |-> [f.w EXCEPT !.logger.current_file_size =
                                        @ + f.bytes_written],
                  ret |-> 0]
            ELSE [w |-> f.w, ret |-> -1]

\* init_data_logger: default configuration, the first file, the buffer, the
\* header. The header's result is not looked at.
init_data_logger(w, base_filename) ==
    LET name == MakeFilename(DefaultConfig.directory, base_filename,
                             time_now(w.clock))
        w1 == [w EXCEPT !.logger.config = DefaultConfig,
                        !.logger.current_filename = name]
        o == Fopen(w1, name)
    IN IF o.fp = NULL
       THEN [w |-> [o.w EXCEPT !.logger.file = NULL], ret |-> -1]
       ELSE LET w2 == [o.w EXCEPT
                         !.logger.file = o.fp,
                         !.logger.buffer = <<>>,
                         !.logger.buffer_cap = DefaultConfig.buffer_size,
                         !.logger.current_file_size = 0,
                         !.logger.sample_count = 0,
                         !.logger.buffer_index = 0,
                         !.logger.last_flush = get_current_time(w.clock)]
            IN [w |-> write_csv_header(w2).w, ret |-> 0]

\* configure_logger: installs the configuration. The comparison that guards
\* the reallocation reads the configuration just installed, so the buffer is
\* never reallocated.
configure_logger(w, config) ==
    LET w1 == [w EXCEPT !.logger.config = config]
    IN IF config.buffer_size /= w1.logger.config.buffer_size
       THEN [w1 EXCEPT !.logger.buffer = <<>>,
                       !.logger.buffer_cap = config.buffer_size,
                       !.logger.buffer_index = 0]
       ELSE w1

\* Mutant of CloseCurrent: the current file is left open.
CloseCurrent_leak(w) == w

\* rotate_log_file, lines 184-190: the current file is closed first.
CloseCurrent(w) ==
    IF w.logger.file /= NULL THEN Fclose(w) ELSE w

\* Mutant of rotate_log_file: the new file gets no header.
rotate_log_file_no_header(w) ==
    LET w1 == IF w.logger.file /= NULL THEN Fclose(w) ELSE w
        name == MakeFilename(w1.logger.config.directory,
                             BaseNameOf(w1.logger.current_filename),
                             time_now(w1.clock))
        w2 == [w1 EXCEPT !.logger.current_filename = name]
        o == Fopen(w2, name)
    IN IF o.fp = NULL
       THEN [w |-> [o.w EXCEPT !.logger.file = NULL], ret |-> -1]
       ELSE [w |-> [o.w EXCEPT !.logger.file = o.fp,
                               !.logger.current_file_size = 0,
                               !.rotations = @ + 1],
             ret |-> 0]

\* Mutant of rotate_log_file: the size counter is not reset.
rotate_log_file_no_reset(w) ==
    LET w1 == IF w.logger.file /= NULL THEN Fclose(w) ELSE w
        name == MakeFilename(w1.logger.config.directory,
                             BaseNameOf(w1.logger.current_filename),
                             time_now(w1.clock))
        w2 == [w1 EXCEPT !.logger.current_filename = name]
        o == Fopen(w2, name)
    IN IF o.fp = NULL
       THEN [w |-> [o.w EXCEPT !.logger.file = NULL], ret |-> -1]
       ELSE LET w3 == [o.w EXCEPT !.logger.file = o.fp,
                                  !.rotations = @ + 1]
            IN [w |-> write_csv_header(w3).w, ret |-> 0]

\* rotate_log_file: close, name the next file after the first piece of the
\* current name and the current second, open it, reset the size, write the
\* header.
rotate_log_file(w) ==
    LET w1 == CloseCurrent(w)
        name == MakeFilename(w1.logger.config.directory,
                             BaseNameOf(w1.logger.current_filename),
                             time_now(w1.clock))
        w2 == [w1 EXCEPT !.logger.current_filename = name]
        o == Fopen(w2, name)
    IN IF o.fp = NULL
       THEN [w |-> [o.w EXCEPT !.logger.file = NULL], ret |-> -1]
       ELSE LET w3 == [o.w EXCEPT !.logger.file = o.fp,
                                  !.logger.current_file_size = 0,
                                  !.rotations = @ + 1]
            IN [w |-> write_csv_header(w3).w, ret |-> 0]

\* Mutant of WriteBuffered: the loop stops at the first fprintf that fails.
RECURSIVE WriteBuffered_stop_at_failure(_, _)
WriteBuffered_stop_at_failure(w, i) ==
    IF i > w.logger.buffer_index \/ i > Len(w.logger.buffer) THEN w
    ELSE LET f == Fprintf(w, CsvLine(w.logger.buffer[i]))
         IN IF f.bytes_written > 0
            THEN WriteBuffered_stop_at_failure(
                     [f.w EXCEPT !.logger.current_file_size = @ + f.bytes_written],
                     i + 1)
            ELSE f.w

\* flush_logger_buffer, lines 141-162: one fprintf per buffered reading from
\* slot i on; a failed fprintf adds nothing to the size and the loop goes on.
RECURSIVE WriteBuffered(_, _)
WriteBuffered(w, i) ==
    IF i > w.logger.buffer_index \/ i > Len(w.logger.buffer) THEN w
    ELSE LET f == Fprintf(w, CsvLine(w.logger.buffer[i]))
         IN WriteBuffered(
                IF f.bytes_written > 0
                THEN [f.w EXCEPT !.logger.current_file_size = @ + f.bytes_written]
                ELSE f.w,
                i + 1)

\* What an int holds, in megabytes: 2^31 bytes are 2048 MB.
IntMB == 2048

\* max_file_size_mb * 1024 * 1024 of line 173, an int product.  Past
\* INT_MAX the product is undefined in C; the Makefile's build (gcc -O2)
\* computes it with a 32-bit shift and sign-extends the result for the
\* comparison with the long size counter, so it wraps around.
ThresholdBytes(max_file_size_mb) ==
    LET half == IntMB * BytesPerMB
    IN ((max_file_size_mb * BytesPerMB + half) % (2 * half)) - half

\* flush_logger_buffer, lines 172-173: the rotation test.
RotationNeeded(lg) ==
    /\ lg.config.auto_rotate /= 0
    /\ lg.current_file_size > ThresholdBytes(lg.config.max_file_size_mb)

\* Mutant of flush_logger_buffer: the rotation test is made before the
\* buffered readings are written.
flush_logger_buffer_test_first(w) ==
    IF w.logger.file = NULL \/ w.logger.buffer_index = 0
    THEN [w |-> w, ret |-> 0]
    ELSE LET r == IF RotationNeeded(w.logger) THEN rotate_log_file(w)
                  ELSE [w |-> w, ret |-> 0]
             w1 == WriteBuffered(r.w, 1)
         IN [w |-> [w1 EXCEPT !.logger.buffer = <<>>,
                              !.logger.buffer_index = 0,
                              !.logger.last_flush = get_current_time(w.clock)],
             ret |-> r.ret]

\* flush_logger_buffer: nothing without a file or with an empty buffer;
\* otherwise writes the buffer, empties it, notes the time and rotates when
\* the file has grown past the threshold.
flush_logger_buffer(w) ==
    IF w.logger.file = NULL \/ w.logger.buffer_index = 0
    THEN [w |-> w, ret |-> 0]
    ELSE LET w1 == WriteBuffered(w, 1)
             w2 == [w1 EXCEPT !.logger.buffer = <<>>,
                              !.logger.buffer_index = 0,
                              !.logger.last_flush = get_current_time(w.clock)]
         IN IF RotationNeeded(w2.logger)
            THEN rotate_log_file(w2)
            ELSE [w |-> w2, ret |-> 0]

\* Mutant of ShouldFlush: the interval must be exceeded, not reached.
ShouldFlush_strict(lg, now) ==
    \/ lg.buffer_index >= lg.config.buffer_size
    \/ time_diff_ms(lg.last_flush, now) > lg.config.flush_interval_ms

\* log_sensor_data, lines 110-111: the flush test after the insertion.
ShouldFlush(lg, now) ==
    \/ lg.buffer_index >= lg.config.buffer_size
    \/ time_diff_ms(lg.last_flush, now) >= lg.config.flush_interval_ms

\* log_sensor_data: stores the reading in the next slot (slots past the
\* buffer index hold stale data no code reads, and are not kept here),
\* counts it, and flushes when ShouldFlush says so. A store at or past
\* buffer_cap is outside the allocation.
log_sensor_data(w, data) ==
    LET w1 == [w EXCEPT
                 !.oob = @ \/ (w.logger.buffer_index >= w.logger.buffer_cap),
                 !.logger.buffer =
                     Append(SubSeq(@, 1, w.logger.buffer_index), data),
                 !.logger.buffer_index = @ + 1,
                 !.logger.sample_count = @ + 1]
    IN IF ShouldFlush(w1.logger, get_current_time(w.clock))
       THEN flush_logger_buffer(w1)
       ELSE [w |-> w1, ret |-> 0]

\* log_sensor_data_batch: one log_sensor_data per element, stopping at the
\* first that fails; done counts the elements handed to log_sensor_data.
RECURSIVE BatchFrom(_, _, _)
BatchFrom(w, data_array, i) ==
    IF i > Len(data_array) THEN [w |-> w, ret |-> 0, done |-> i - 1]
    ELSE LET r == log_sensor_data(w, data_array[i])
         IN IF r.ret /= 0 THEN [w |-> r.w, ret |-> -1, done |-> i]
            ELSE BatchFrom(r.w, data_array, i + 1)

log_sensor_data_batch(w, data_array) ==
    IF Len(data_array) <= 0 THEN [w |-> w, ret |-> -1, done |-> 0]
    ELSE BatchFrom(w, data_array, 1)

\* Mutant of cleanup_data_logger: the file is closed without the flush.
cleanup_data_logger_no_flush(w) ==
    LET w2 == IF w.logger.file /= NULL
              THEN [Fclose(w) EXCEPT !.logger.file = NULL]
              ELSE w
    IN [w2 EXCEPT !.logger.buffer = <<>>, !.logger.buffer_cap = 0,
                  !.logger.buffer_index = 0]

\* cleanup_data_logger: flush what is buffered, close the file, free the
\* buffer.
cleanup_data_logger(w) ==
    LET w1 == flush_logger_buffer(w).w
        w2 == IF w1.logger.file /= NULL
              THEN [Fclose(w1) EXCEPT !.logger.file = NULL]
              ELSE w1
    IN [w2 EXCEPT !.logger.buffer = <<>>, !.logger.buffer_cap = 0]

\* ------------------------------------------------- statistics and filters
\* A double that is a quotient of two integers.
Rat(n, d) == [num |-> n, den |-> d]

\* INFINITY and -INFINITY of init_statistics: beyond every value of the model.
PosInf == 1000000
NegInf == -1000000

\* init_statistics. std_deviation is kept as the number it is the square
\* root of.
init_statistics ==
    [mean |-> Rat(0, 1), min |-> PosInf, max |-> NegInf,
     std_deviation |-> [sqrt_of |-> Rat(0, 1)], variance |-> Rat(0, 1),
     median |-> Rat(0, 1), sample_count |-> 0, sum |-> 0, sum_squares |-> 0]

\* Mutant of update_statistics: the value, not its square, is added to
\* sum_squares.
update_statistics_no_square(st, value) ==
    [st EXCEPT !.sample_count = @ + 1,
               !.sum = @ + value,
               !.sum_squares = @ + value,
               !.min = IF value < @ THEN value ELSE @,
               !.max = IF value > @ THEN value ELSE @]

\* update_statistics: count, sum, sum of squares, min, max; the derived
\* fields are left as they were.
update_statistics(st, value) ==
    [st EXCEPT !.sample_count = @ + 1,
               !.sum = @ + value,
               !.sum_squares = @ + value * value,
               !.min = IF value < @ THEN value ELSE @,
               !.max = IF value > @ THEN value ELSE @]

\* Mutant of finalize_statistics: the derived fields are left as they were.
finalize_statistics_skipped(st) == st

\* finalize_statistics: mean = sum / n, variance = sum_squares / n - mean^2,
\* std_deviation = sqrt(variance), median = mean; nothing with no sample.
finalize_statistics(st) ==
    IF st.sample_count = 0 THEN st
    ELSE LET n == st.sample_count
             variance == Rat(st.sum_squares * n - st.sum * st.sum, n * n)
         IN [st EXCEPT !.mean = Rat(st.sum, n),
                       !.variance = variance,
                       !.std_deviation = [sqrt_of |-> variance],
                       !.median = Rat(st.sum, n)]

\* A moving_average_t no window has been created for: buffer is NULL, written
\* as the empty sequence.
BlankMovingAverage ==
    [buffer |-> <<>>, buffer_size |-> 0, current_index |-> 0,
     sample_count |-> 0, sum |-> 0]

\* Mutant of init_moving_average: only a negative window size is refused.
init_moving_average_accepts_zero(ma, window_size) ==
    IF window_size < 0 THEN [ma |-> ma, ret |-> -1]
    ELSE [ma |-> [buffer |-> [i \in 1..window_size |-> 0],
                  buffer_size |-> window_size,
                  current_index |-> 0, sample_count |-> 0, sum |-> 0],
          ret |-> 0]

\* init_moving_average: -1 and nothing done for a window size of zero or
\* less; otherwise a window of zeros of that size, and 0.
init_moving_average(ma, window_size) ==
    IF window_size <= 0 THEN [ma |-> ma, ret |-> -1]
    ELSE [ma |-> [buffer |-> [i \in 1..window_size |-> 0],
                  buffer_size |-> window_size,
                  current_index |-> 0, sample_count |-> 0, sum |-> 0],
          ret |-> 0]

\* Mutant of update_moving_average: the result is the sum over the window
\* size.
update_moving_average_over_size(ma, value) ==
    IF ma.buffer = <<>> THEN [ma |-> ma, average |-> Rat(0, 1)]
    ELSE LET full == ma.sample_count >= ma.buffer_size
             ma1 == [ma EXCEPT
                       !.sum = (IF full THEN @ - ma.buffer[ma.current_index + 1]
                                ELSE @) + value,
                       !.sample_count = IF full THEN @ ELSE @ + 1,
                       !.buffer[ma.current_index + 1] = value,
                       !.current_index = (@ + 1) % ma.buffer_size]
         IN [ma |-> ma1, average |-> Rat(ma1.sum, ma1.buffer_size)]

\* Mutant of update_moving_average: the value that is overwritten stays in
\* the sum.
update_moving_average_keeps_old(ma, value) ==
    IF ma.buffer = <<>> THEN [ma |-> ma, average |-> Rat(0, 1)]
    ELSE LET full == ma.sample_count >= ma.buffer_size
             ma1 == [ma EXCEPT
                       !.sum = @ + value,
                       !.sample_count = IF full THEN @ ELSE @ + 1,
                       !.buffer[ma.current_index + 1] = value,
                       !.current_index = (@ + 1) % ma.buffer_size]
         IN [ma |-> ma1, average |-> Rat(ma1.sum, ma1.sample_count)]

\* update_moving_average: 0.0 without a window; otherwise, once the window
\* is full the value at the write index leaves the sum; the new value is
\* stored there and added; the index advances circularly. The result is
\* sum / sample_count.
update_moving_average(ma, value) ==
    IF ma.buffer = <<>> THEN [ma |-> ma, average |-> Rat(0, 1)]
    ELSE LET full == ma.sample_count >= ma.buffer_size
             ma1 == [ma EXCEPT
                       !.sum = (IF full THEN @ - ma.buffer[ma.current_index + 1]
                                ELSE @) + value,
                       !.sample_count = IF full THEN @ ELSE @ + 1,
                       !.buffer[ma.current_index + 1] = value,
                       !.current_index = (@ + 1) % ma.buffer_size]
         IN [ma |-> ma1, average |-> Rat(ma1.sum, ma1.sample_count)]

Abs(x) == IF x < 0 THEN -x ELSE x

\* Mutant of detect_anomaly: the baseline is used however few samples it has.
detect_anomaly_no_warm_up(data, baseline_stats, config) ==
    LET normal == [is_anomaly |-> 0, severity |-> [kind |-> "zero"],
                   detected_at |-> data.timestamp]
    IN IF FALSE
       THEN normal
       ELSE LET mn == baseline_stats.mean.num
                md == baseline_stats.mean.den
                vn == baseline_stats.std_deviation.sqrt_of.num
                vd == baseline_stats.std_deviation.sqrt_of.den
                dev == Abs(data.value * md - mn)
                k == config.threshold_multiplier
                statistical == dev * dev * vd > k * k * vn * md * md
                absolute == Abs(data.value) > config.absolute_threshold
            IN [is_anomaly |-> IF statistical \/ absolute THEN 1 ELSE 0,
                severity |->
                    IF statistical
                    THEN [kind |-> "statistical",
                          square |-> Rat(dev * dev * vd, vn * md * md)]
                    ELSE IF absolute
                    THEN [kind |-> "absolute",
                          ratio |-> Rat(Abs(data.value), config.absolute_threshold)]
                    ELSE [kind |-> "zero"],
                detected_at |-> data.timestamp]

\* Mutant of detect_anomaly: a deviation equal to the threshold is an anomaly.
detect_anomaly_inclusive(data, baseline_stats, config) ==
    LET normal == [is_anomaly |-> 0, severity |-> [kind |-> "zero"],
                   detected_at |-> data.timestamp]
    IN IF baseline_stats.sample_count < config.min_samples_for_analysis
       THEN normal
       ELSE LET mn == baseline_stats.mean.num
                md == baseline_stats.mean.den
                vn == baseline_stats.std_deviation.sqrt_of.num
                vd == baseline_stats.std_deviation.sqrt_of.den
                dev == Abs(data.value * md - mn)
                k == config.threshold_multiplier
                statistical == dev * dev * vd >= k * k * vn * md * md
                absolute == Abs(data.value) > config.absolute_threshold
            IN [is_anomaly |-> IF statistical \/ absolute THEN 1 ELSE 0,
                severity |->
                    IF statistical
                    THEN [kind |-> "statistical",
                          square |-> Rat(dev * dev * vd, vn * md * md)]
                    ELSE IF absolute
                    THEN [kind |-> "absolute",
                          ratio |-> Rat(Abs(data.value), config.absolute_threshold)]
                    ELSE [kind |-> "zero"],
                detected_at |-> data.timestamp]

\* Mutant of detect_anomaly: the absolute ratio replaces the statistical
\* severity when both checks fire.
detect_anomaly_absolute_first(data, baseline_stats, config) ==
    LET normal == [is_anomaly |-> 0, severity |-> [kind |-> "zero"],
                   detected_at |-> data.timestamp]
    IN IF baseline_stats.sample_count < config.min_samples_for_analysis
       THEN normal
       ELSE LET mn == baseline_stats.mean.num
                md == baseline_stats.mean.den
                vn == baseline_stats.std_deviation.sqrt_of.num
                vd == baseline_stats.std_deviation.sqrt_of.den
                dev == Abs(data.value * md - mn)
                k == config.threshold_multiplier
                statistical == dev * dev * vd > k * k * vn * md * md
                absolute == Abs(data.value) > config.absolute_threshold
            IN [is_anomaly |-> IF statistical \/ absolute THEN 1 ELSE 0,
                severity |->
                    IF statistical /\ ~absolute
                    THEN [kind |-> "statistical",
                          square |-> Rat(dev * dev * vd, vn * md * md)]
                    ELSE IF absolute
                    THEN [kind |-> "absolute",
                          ratio |-> Rat(Abs(data.value), config.absolute_threshold)]
                    ELSE [kind |-> "zero"],
                detected_at |-> data.timestamp]

\* detect_anomaly. With mean = mn/md and std_deviation = sqrt(vn/vd), the test
\* |value - mean| > k * std_deviation is |value*md - mn|^2 * vd > k^2 * vn * md^2.
\* The statistical severity deviation / std_deviation is kept by its square.
detect_anomaly(data, baseline_stats, config) ==
    LET normal == [is_anomaly |-> 0, severity |-> [kind |-> "zero"],
                   detected_at |-> data.timestamp]
    IN IF baseline_stats.sample_count < config.min_samples_for_analysis
       THEN normal
       ELSE LET mn == baseline_stats.mean.num
                md == baseline_stats.mean.den
                vn == baseline_stats.std_deviation.sqrt_of.num
                vd == baseline_stats.std_deviation.sqrt_of.den
                dev == Abs(data.value * md - mn)
                k == config.threshold_multiplier
                statistical == dev * dev * vd > k * k * vn * md * md
                absolute == Abs(data.value) > config.absolute_threshold
            IN [is_anomaly |-> IF statistical \/ absolute THEN 1 ELSE 0,
                severity |->
                    IF statistical
                    THEN [kind |-> "statistical",
                          square |-> Rat(dev * dev * vd, vn * md * md)]
                    ELSE IF absolute
                    THEN [kind |-> "absolute",
                          ratio |-> Rat(Abs(data.value), config.absolute_threshold)]
                    ELSE [kind |-> "zero"],
                detected_at |-> data.timestamp]

\* Mutant of AnalysisDue: the reading being handled counts as a sample.
AnalysisDue_counts_current(sample_count, config) ==
    sample_count + 1 >= config.min_samples_for_analysis

\* The warm-up gate of the bridge loop, line 842: sample_count is the number
\* of readings handled before this one.
AnalysisDue(sample_count, config) ==
    sample_count >= config.min_samples_for_analysis

\* ------------------------------------------------------------ trend analysis
\* The sum f[0] + ... + f[n - 1].
RECURSIVE SumFirst(_, _)
SumFirst(f, n) == IF n <= 0 THEN 0 ELSE SumFirst(f, n - 1) + f[n - 1]

Sign(x) == IF x > 0 THEN 1 ELSE IF x < 0 THEN -1 ELSE 0

\* The deadband 1e-6 of line 549. The values handed to analyze_trend are whole
\* multiples of 1e-6, so the deadband is one unit.
TrendDeadband == 1

\* The trend_analysis_t of lines 495-499. A correlation is sign * sqrt(q) and
\* a confidence sqrt(q), kept as the quotient q.
TrendNeutral ==
    [slope |-> Rat(0, 1),
     correlation |-> [sign |-> 0, sqrt_of |-> Rat(0, 1)],
     trend_direction |-> "stable",
     confidence |-> [sqrt_of |-> Rat(0, 1)]]

\* analyze_trend, lines 505-558: the least-squares line through the
\* window_size readings that follow the first start_idx. The deviations
\* dx = x - mean_x and dy = y - mean_y are kept multiplied by n, which scales
\* sum_dx2, sum_dy2 and sum_dxdy by n * n and leaves their signs and the
\* correlation as they are. denominator is a whole number, so it is above
\* 1e-10 exactly when it is not zero.
LeastSquares(data_array, start_idx, window_size) ==
    LET n == window_size
        x == [i \in 0..(n - 1) |-> i]
        y == [i \in 0..(n - 1) |-> data_array[start_idx + i + 1].value]
        sum_x == SumFirst(x, n)
        sum_y == SumFirst(y, n)
        sum_xy == SumFirst([i \in 0..(n - 1) |-> x[i] * y[i]], n)
        sum_x2 == SumFirst([i \in 0..(n - 1) |-> x[i] * x[i]], n)
        denominator == n * sum_x2 - sum_x * sum_x
        slope == Rat(n * sum_xy - sum_x * sum_y, denominator)
        dx == [i \in 0..(n - 1) |-> n * x[i] - sum_x]
        dy == [i \in 0..(n - 1) |-> n * y[i] - sum_y]
        sum_dx2 == SumFirst([i \in 0..(n - 1) |-> dx[i] * dx[i]], n)
        sum_dy2 == SumFirst([i \in 0..(n - 1) |-> dy[i] * dy[i]], n)
        sum_dxdy == SumFirst([i \in 0..(n - 1) |-> dx[i] * dy[i]], n)
        correlated == sum_dx2 > 0 /\ sum_dy2 > 0
        q == Rat(sum_dxdy * sum_dxdy, sum_dx2 * sum_dy2)
    IN IF Abs(denominator) > 0
       THEN [slope |-> slope,
             correlation |-> IF correlated
                             THEN [sign |-> Sign(sum_dxdy), sqrt_of |-> q]
                             ELSE TrendNeutral.correlation,
             trend_direction |->
                 IF Abs(slope.num) < TrendDeadband * Abs(slope.den)
                 THEN "stable"
                 ELSE IF slope.num * slope.den > 0 THEN "increasing"
                 ELSE "decreasing",
             confidence |-> IF correlated THEN [sqrt_of |-> q]
                            ELSE TrendNeutral.confidence]
       ELSE TrendNeutral

\* Mutant of analyze_trend: fewer samples than the window are analysed as a
\* window of their own.
analyze_trend_short_window(data_array, count, window_size) ==
    IF window_size < 2 THEN TrendNeutral
    ELSE LET w == IF count < window_size THEN count ELSE window_size
         IN LeastSquares(data_array, count - w, w)

\* analyze_trend, lines 494-559.
analyze_trend(data_array, count, window_size) ==
    IF count < window_size \/ window_size < 2 THEN TrendNeutral
    ELSE LeastSquares(data_array, count - window_size, window_size)

\* --------------------------------------------------------- frequency analysis
\* The interior positions (1-based) of the strict local maxima of values,
\* lines 589-590.
PeakPositions(values, count) ==
    {i \in 2..(count - 1) :
        values[i] > values[i - 1] /\ values[i] > values[i + 1]}

\* The largest member of a non-empty set of numbers.
MaxOf(S) == CHOOSE m \in S : \A x \in S : x <= m

\* analyze_frequency_spectrum. dominant_frequency and amplitude are what the
\* two output parameters point at before the call; total_time is count * 0.1,
\* and the running maximum of amplitude starts at the 0.0 of line 583.
analyze_frequency_spectrum(values, count, dominant_frequency, amplitude) ==
    IF count < 4
    THEN [ret |-> -1, dominant_frequency |-> dominant_frequency,
          amplitude |-> amplitude]
    ELSE LET peaks == PeakPositions(values, count)
             peak_count == Cardinality(peaks)
             total_time == Rat(count, 10)
         IN [ret |-> 0,
             dominant_frequency |->
                 IF peak_count > 0 /\ total_time.num > 0
                 THEN Rat(peak_count * total_time.den, total_time.num)
                 ELSE Rat(0, 1),
             amplitude |-> MaxOf({0} \cup {values[i] : i \in peaks})]

\* --------------------------------------------------- bridge vibration analysis
\* The limits of lines 645 and 648 on values that are whole multiples of 0.1:
\* peak_amplitude < 0.3 and < 0.8 are peak < 3 and < 8, and rms_amplitude < 0.1
\* and < 0.3, with rms = sqrt(sum_squares / count), are sum_squares < count
\* and sum_squares < 9 * count.
SafePeakTenths == 3
WarningPeakTenths == 8
SafeRmsTenths == 1
WarningRmsTenths == 3

\* Mutant of analyze_bridge_vibration: an rms_amplitude equal to a limit is
\* still below it.
analyze_bridge_vibration_inclusive(vibration_data_in, count) ==
    LET insufficient ==
            [rms_amplitude |-> [sqrt_of |-> Rat(0, 1)], peak_amplitude |-> 0,
             dominant_frequency |-> Rat(0, 1), safety_status |-> 0,
             safety_message |-> "Insufficient data"]
    IN IF count < 10 THEN insufficient
       ELSE LET values == [i \in 1..count |-> vibration_data_in[i].value]
                sum_squares ==
                    SumFirst([i \in 0..(count - 1) |->
                                 values[i + 1] * values[i + 1]], count)
                peak_amplitude == MaxOf({0} \cup {values[i] : i \in 1..count})
                spectrum == analyze_frequency_spectrum(values, count,
                                                       Rat(0, 1), 0)
                rms_below(limit) == sum_squares <= limit * limit * count
                measured ==
                    [insufficient EXCEPT
                        !.rms_amplitude = [sqrt_of |-> Rat(sum_squares, count)],
                        !.peak_amplitude = peak_amplitude,
                        !.dominant_frequency = spectrum.dominant_frequency]
            IN IF rms_below(SafeRmsTenths) /\ peak_amplitude < SafePeakTenths
               THEN [measured EXCEPT
                        !.safety_status = 0,
                        !.safety_message =
                            "Normal vibration levels - Bridge is safe"]
               ELSE IF rms_below(WarningRmsTenths)
                       /\ peak_amplitude < WarningPeakTenths
               THEN [measured EXCEPT
                        !.safety_status = 1,
                        !.safety_message =
                            "Elevated vibration levels - Monitor closely"]
               ELSE [measured EXCEPT
                        !.safety_status = 2,
                        !.safety_message =
                            "CRITICAL: Excessive vibration - Immediate inspection required"]

\* analyze_bridge_vibration. rms_amplitude is kept as the quotient under its
\* root; the allocation of line 633 succeeds.
analyze_bridge_vibration(vibration_data_in, count) ==
    LET insufficient ==
            [rms_amplitude |-> [sqrt_of |-> Rat(0, 1)], peak_amplitude |-> 0,
             dominant_frequency |-> Rat(0, 1), safety_status |-> 0,
             safety_message |-> "Insufficient data"]
    IN IF count < 10 THEN insufficient
       ELSE LET values == [i \in 1..count |-> vibration_data_in[i].value]
                sum_squares ==
                    SumFirst([i \in 0..(count - 1) |->
                                 values[i + 1] * values[i + 1]], count)
                peak_amplitude == MaxOf({0} \cup {values[i] : i \in 1..count})
                spectrum == analyze_frequency_spectrum(values, count,
                                                       Rat(0, 1), 0)
                rms_below(limit) == sum_squares < limit * limit * count
                measured ==
                    [insufficient EXCEPT
                        !.rms_amplitude = [sqrt_of |-> Rat(sum_squares, count)],
                        !.peak_amplitude = peak_amplitude,
                        !.dominant_frequency = spectrum.dominant_frequency]
            IN IF rms_below(SafeRmsTenths) /\ peak_amplitude < SafePeakTenths
               THEN [measured EXCEPT
                        !.safety_status = 0,
                        !.safety_message =
                            "Normal vibration levels - Bridge is safe"]
               ELSE IF rms_below(WarningRmsTenths)
                       /\ peak_amplitude < WarningPeakTenths
               THEN [measured EXCEPT
                        !.safety_status = 1,
                        !.safety_message =
                            "Elevated vibration levels - Monitor closely"]
               ELSE [measured EXCEPT
                        !.safety_status = 2,
                        !.safety_message =
                            "CRITICAL: Excessive vibration - Immediate inspection required"]

\* print_bridge_analysis, lines 700-717: the status and message lines.
print_bridge_analysis(analysis) ==
    [status |-> CASE analysis.safety_status = 0 -> "SAFE (Green)"
                  [] analysis.safety_status = 1 -> "WARNING (Yellow)"
                  [] analysis.safety_status = 2 -> "CRITICAL (Red)"
                  [] OTHER -> "UNKNOWN",
     message |-> analysis.safety_message]

\* ------------------------------------------------- the API-level specification
\* Base names given to init_data_logger, as their pieces between underscores:
\* "session" and the default "bridge_vibration" of run_bridge_monitoring.
BaseNames == {<<"session">>, <<"bridge", "vibration">>}

\* Configurations handed to configure_logger.
Configs ==
    [max_file_size_mb : {1}, auto_rotate : {0, 1}, buffer_size : {2},
     flush_interval_ms : {1000}, directory : {"data"}]

\* Sensor types and values of the readings handed to the logger.
ReadingTypes == {SENSOR_TEMPERATURE, SENSOR_VIBRATION}
ReadingValue(type) == IF type = SENSOR_TEMPERATURE THEN 20 ELSE 0

\* The logger structure before init_data_logger has run.
BlankLogger ==
    [file |-> NULL, config |-> DefaultConfig,
     current_filename |-> MakeFilename("", <<"">>, 0),
     current_file_size |-> 0, sample_count |-> 0, buffer |-> <<>>,
     buffer_cap |-> 0, buffer_index |-> 0, last_flush |-> get_current_time(0)]

BlankWorld ==
    [logger |-> BlankLogger, disk |-> <<>>, open_count |-> 0, peak_open |-> 0,
     clock |-> 0, io_ok |-> NoFaults, rotations |-> 0, oob |-> FALSE]

\* The world becomes w.
Becomes(w) ==
    /\ logger' = w.logger
    /\ disk' = w.disk
    /\ open_count' = w.open_count
    /\ peak_open' = w.peak_open
    /\ rotations' = w.rotations
    /\ oob' = w.oob
    /\ io_ok' = w.io_ok

\* The mean and standard deviation of a status line before any was printed.
NothingShown ==
    [mean |-> Rat(0, 1), std_deviation |-> [sqrt_of |-> Rat(0, 1)]]

\* No monitoring loop is running: the logger is driven through its API.
IdleSession ==
    [mode |-> "none", hardware_mode |-> 0, duration |-> 0, interval |-> 0,
     max_samples |-> 0, start_time |-> get_current_time(0), sample_count |-> 0,
     anomaly_count |-> 0,
     anomaly_config |-> [threshold_multiplier |-> 0, absolute_threshold |-> 0,
                         window_size |-> 0, min_samples_for_analysis |-> 0],
     data |-> <<>>, i |-> 0, read_failed |-> FALSE,
                      shown |-> NothingShown]

NoSession ==
    /\ running = 1
    /\ pc = "api"
    /\ sess = IdleSession
    /\ stats = [vibration |-> init_statistics, temp |-> init_statistics,
                humidity |-> init_statistics, pressure |-> init_statistics]
    /\ moving_avg = BlankMovingAverage
    /\ vibration_data = <<>>

\* The state after a successful init_data_logger at time 0.
Init ==
    \E base \in BaseNames :
        LET r == init_data_logger(BlankWorld, base)
        IN /\ logger = r.w.logger
           /\ disk = r.w.disk
           /\ open_count = r.w.open_count
           /\ peak_open = r.w.peak_open
           /\ rotations = r.w.rotations
           /\ oob = r.w.oob
           /\ clock = 0
           /\ io_ok = NoFaults
           /\ appended = <<>>
           /\ phase = "open"
           /\ ret = r.ret
           /\ NoSession

\* A store outside the buffer's allocation is undefined: the process may die
\* there or go on.
AfterStore(w) == IF w.oob THEN {"open", "crashed"} ELSE {"open"}

LogSensorData ==
    /\ pc = "api"
    /\ phase = "open"
    /\ Len(appended) < MaxReadings
    /\ \E type \in ReadingTypes :
        LET data == Reading(Len(appended) + 1, type, ReadingValue(type), clock)
            r == log_sensor_data(World, data)
        IN /\ Becomes(r.w)
           /\ appended' = Append(appended, data)
           /\ phase' \in AfterStore(r.w)
           /\ ret' = r.ret
    /\ UNCHANGED clock
    /\ UNCHANGED loopvars

\* The arrays handed to log_sensor_data_batch: count readings, count in 1..2.
LogSensorDataBatch ==
    /\ pc = "api"
    /\ phase = "open"
    /\ \E count \in 1..2 :
        /\ Len(appended) + count <= MaxReadings
        /\ \E types \in [1..count -> ReadingTypes] :
            LET data_array == [i \in 1..count |->
                                 Reading(Len(appended) + i, types[i],
                                         ReadingValue(types[i]), clock)]
                r == log_sensor_data_batch(World, data_array)
            IN /\ Becomes(r.w)
               /\ appended' = appended \o SubSeq(data_array, 1, r.done)
               /\ phase' \in AfterStore(r.w)
               /\ ret' = r.ret
    /\ UNCHANGED clock
    /\ UNCHANGED loopvars

FlushLoggerBuffer ==
    /\ pc = "api"
    /\ phase = "open"
    /\ LET r == flush_logger_buffer(World)
       IN /\ Becomes(r.w)
          /\ ret' = r.ret
    /\ UNCHANGED <<clock, appended, phase>>
    /\ UNCHANGED loopvars

RotateLogFile ==
    /\ pc = "api"
    /\ phase = "open"
    /\ rotations < MaxRotations
    /\ LET r == rotate_log_file(World)
       IN /\ Becomes(r.w)
          /\ ret' = r.ret
    /\ UNCHANGED <<clock, appended, phase>>
    /\ UNCHANGED loopvars

\* configure_logger is called on the fresh logger, before the first reading.
ConfigureLogger ==
    /\ pc = "api"
    /\ phase = "open"
    /\ appended = <<>>
    /\ \E config \in Configs :
        /\ Becomes(configure_logger(World, config))
        /\ ret' = 0
    /\ UNCHANGED <<clock, appended, phase>>
    /\ UNCHANGED loopvars

CleanupDataLogger ==
    /\ pc = "api"
    /\ phase = "open"
    /\ Becomes(cleanup_data_logger(World))
    /\ phase' = "closed"
    /\ ret' = 0
    /\ UNCHANGED <<clock, appended>>
    /\ UNCHANGED loopvars

\* Time passes between two calls.
Tick ==
    /\ pc = "api"
    /\ phase = "open"
    /\ clock + TickMs <= MaxClockMs
    /\ clock' = clock + TickMs
    /\ UNCHANGED <<logvars, io_ok, appended, phase, ret>>
    /\ UNCHANGED loopvars

Next ==
    \/ LogSensorData
    \/ LogSensorDataBatch
    \/ FlushLoggerBuffer
    \/ RotateLogFile
    \/ ConfigureLogger
    \/ CleanupDataLogger
    \/ Tick

Spec == Init /\ [][Next]_vars

\* -------------------------------------- sessions with a configured logger
\* The state after init_data_logger and configure_logger at time 0.
InitAuto ==
    \E base \in BaseNames, config \in Configs :
        LET r == init_data_logger(BlankWorld, base)
            w == configure_logger(r.w, config)
        IN /\ logger = w.logger
           /\ disk = w.disk
           /\ open_count = w.open_count
           /\ peak_open = w.peak_open
           /\ rotations = w.rotations
           /\ oob = w.oob
           /\ clock = 0
           /\ io_ok = NoFaults
           /\ appended = <<>>
           /\ phase = "open"
           /\ ret = r.ret
           /\ NoSession

\* No call is made for longer than the flush interval: the logger has no
\* timer, so nothing of it runs meanwhile.
Idle ==
    /\ pc = "api"
    /\ phase = "open"
    /\ clock <= MaxClockMs
    /\ clock' = clock + logger.config.flush_interval_ms + TickMs
    /\ UNCHANGED <<logvars, io_ok, appended, phase, ret>>
    /\ UNCHANGED loopvars

\* Readings are appended one by one; rotation is left to the logger.
NextAuto ==
    \/ LogSensorData
    \/ FlushLoggerBuffer
    \/ CleanupDataLogger
    \/ Tick
    \/ Idle

SpecAuto == InitAuto /\ [][NextAuto]_vars

\* ------------------------------------- sessions with a configured threshold
\* Configurations that differ in the rotation threshold: the default 10 MB,
\* one small enough for the readings of a session to exceed, and two that the
\* int of line 11 of data_logger.h holds but whose size in bytes it does not.
ThresholdConfigs ==
    [max_file_size_mb : {1, 10, IntMB, 2 * IntMB}, auto_rotate : {1},
     buffer_size : {1, 2}, flush_interval_ms : {1000}, directory : {"data"}]

\* The state after init_data_logger and configure_logger at time 0.
InitThreshold ==
    \E config \in ThresholdConfigs :
        LET r == init_data_logger(BlankWorld, <<"session">>)
            w == configure_logger(r.w, config)
        IN /\ logger = w.logger
           /\ disk = w.disk
           /\ open_count = w.open_count
           /\ peak_open = w.peak_open
           /\ rotations = w.rotations
           /\ oob = w.oob
           /\ clock = 0
           /\ io_ok = NoFaults
           /\ appended = <<>>
           /\ phase = "open"
           /\ ret = r.ret
           /\ NoSession

NextThreshold ==
    \/ LogSensorData
    \/ FlushLoggerBuffer
    \/ CleanupDataLogger
    \/ Tick

SpecThreshold == InitThreshold /\ [][NextThreshold]_vars

\* ------------------------------------------------ sessions with I/O failures
\* Outcomes of up to n upcoming calls, the last of them a failure.
FailingOutcomes(n) ==
    {q \in UNION {[1..k -> BOOLEAN] : k \in 1..n} : ~q[Len(q)]}

\* What can go wrong next: the next fopen, or one of the next fprintf calls.
FaultSchedules ==
    {[NoFaults EXCEPT !.fopen = <<FALSE>>]}
        \cup {[NoFaults EXCEPT !.fprintf = q] : q \in FailingOutcomes(MaxFaultLen)}

\* The state after init_data_logger at time 0, with or without a failure,
\* and configure_logger when it succeeded; a caller that gets -1 gives up.
InitFault ==
    \E config \in Configs, faults \in FaultSchedules \cup {NoFaults} :
        LET r == init_data_logger([BlankWorld EXCEPT !.io_ok = faults],
                                  <<"session">>)
            w == IF r.ret = 0 THEN configure_logger(r.w, config) ELSE r.w
        IN /\ logger = w.logger
           /\ disk = w.disk
           /\ open_count = w.open_count
           /\ peak_open = w.peak_open
           /\ rotations = w.rotations
           /\ oob = w.oob
           /\ clock = 0
           /\ io_ok = w.io_ok
           /\ appended = <<>>
           /\ phase = IF r.ret = 0 THEN "open" ELSE "failed"
           /\ ret = r.ret
           /\ NoSession

\* The disk or the process runs out of something: some of the next stdio
\* calls are going to fail.
InjectFault ==
    /\ pc = "api"
    /\ phase = "open"
    /\ io_ok.fopen = <<>>
    /\ io_ok.fprintf = <<>>
    /\ io_ok.episodes < MaxFaultEpisodes
    /\ \E faults \in FaultSchedules :
          io_ok' = [faults EXCEPT !.episodes = io_ok.episodes + 1]
    /\ UNCHANGED <<logvars, clock, appended, phase, ret>>
    /\ UNCHANGED loopvars

NextFault ==
    \/ LogSensorData
    \/ FlushLoggerBuffer
    \/ CleanupDataLogger
    \/ Tick
    \/ InjectFault

SpecFault == InitFault /\ [][NextFault]_vars

\* ------------------------------------------- sessions that fill the buffer
\* The readings of a burst: more than the buffer init_data_logger allocates.
MaxStored == 102

\* The configuration init_data_logger sets, and one with a larger buffer.
BurstConfigs ==
    {DefaultConfig,
     [DefaultConfig EXCEPT !.buffer_size = 2 * DefaultConfig.buffer_size]}

\* The state after init_data_logger and configure_logger at time 0.
InitBurst ==
    \E config \in BurstConfigs :
        LET r == init_data_logger(BlankWorld, <<"session">>)
            w == configure_logger(r.w, config)
        IN /\ logger = w.logger
           /\ disk = w.disk
           /\ open_count = w.open_count
           /\ peak_open = w.peak_open
           /\ rotations = w.rotations
           /\ oob = w.oob
           /\ clock = 0
           /\ io_ok = NoFaults
           /\ appended = <<>>
           /\ phase = "open"
           /\ ret = r.ret
           /\ NoSession

\* log_sensor_data on the next vibration reading of the burst.
StoreReading ==
    /\ pc = "api"
    /\ phase = "open"
    /\ Len(appended) < MaxStored
    /\ LET data == Reading(Len(appended) + 1, SENSOR_VIBRATION,
                           ReadingValue(SENSOR_VIBRATION), clock)
           r == log_sensor_data(World, data)
       IN /\ Becomes(r.w)
          /\ appended' = Append(appended, data)
          /\ phase' \in AfterStore(r.w)
          /\ ret' = r.ret
    /\ UNCHANGED clock
    /\ UNCHANGED loopvars

\* The readings of the burst arrive within one clock second.
NextBurst ==
    \/ StoreReading
    \/ RotateLogFile
    \/ InjectFault
    \/ CleanupDataLogger

SpecBurst == InitBurst /\ [][NextBurst]_vars

\* ------------------------------------- the analysis primitives on their own
\* The values fed to the accumulator and the filter.
Values == {-1, 0, 2}

\* The values of the readings fed so far.
Fed == [k \in 1..Len(vibration_data) |-> vibration_data[k].value]

\* The last call of a primitive: its name, its argument, its return code and,
\* for update_moving_average, the average it returned.
Call(name, arg, code, average) ==
    [call |-> name, arg |-> arg, code |-> code, average |-> average]

\* A statistics_t after init_statistics and a moving_average_t no window has
\* been created for.
InitAnalyzer ==
    /\ logger = BlankLogger
    /\ disk = <<>>
    /\ open_count = 0
    /\ peak_open = 0
    /\ rotations = 0
    /\ oob = FALSE
    /\ clock = 0
    /\ io_ok = NoFaults
    /\ appended = <<>>
    /\ phase = "unused"
    /\ ret = Call("init_statistics", 0, 0, Rat(0, 1))
    /\ running = 1
    /\ pc = "analyzer"
    /\ sess = IdleSession
    /\ stats = [vibration |-> init_statistics, temp |-> init_statistics,
                humidity |-> init_statistics, pressure |-> init_statistics]
    /\ moving_avg = BlankMovingAverage
    /\ vibration_data = <<>>

\* init_moving_average on the structure that has no window yet.
InitMovingAverage ==
    /\ pc = "analyzer"
    /\ moving_avg.buffer = <<>>
    /\ \E window_size \in -1..MaxWindow :
        LET r == init_moving_average(moving_avg, window_size)
        IN /\ moving_avg' = r.ma
           /\ ret' = Call("init_moving_average", window_size, r.ret, Rat(0, 1))
    /\ UNCHANGED <<logvars, clock, io_ok, appended, phase, running, pc, sess,
                   stats, vibration_data>>

\* One value handled as the bridge loop handles a reading (lines 831-835):
\* kept, fed to update_statistics and to update_moving_average.
FeedValue ==
    /\ pc = "analyzer"
    /\ moving_avg.buffer /= <<>>
    /\ Len(vibration_data) < MaxSamples
    /\ \E value \in Values :
        LET data == Reading(Len(vibration_data) + 1, SENSOR_VIBRATION, value,
                            clock)
            r == update_moving_average(moving_avg, value)
        IN /\ vibration_data' = Append(vibration_data, data)
           /\ stats' = [stats EXCEPT !.vibration = update_statistics(@, value)]
           /\ moving_avg' = r.ma
           /\ ret' = Call("update_moving_average", value, 0, r.average)
    /\ UNCHANGED <<logvars, clock, io_ok, appended, phase, running, pc, sess>>

\* finalize_statistics, at any point of the stream.
FinalizeStatistics ==
    /\ pc = "analyzer"
    /\ stats' = [stats EXCEPT !.vibration = finalize_statistics(@)]
    /\ ret' = Call("finalize_statistics", 0, 0, Rat(0, 1))
    /\ UNCHANGED <<logvars, clock, io_ok, appended, phase, running, pc, sess,
                   moving_avg, vibration_data>>

NextAnalyzer ==
    \/ InitMovingAverage
    \/ FeedValue
    \/ FinalizeStatistics

SpecAnalyzer == InitAnalyzer /\ [][NextAnalyzer]_vars

\* ------------------------------------------------ detect_anomaly on its own
\* The values of the readings handed to detect_anomaly: the fed values and an
\* extreme outlier.
AnomalyValues == Values \cup {100}

\* The anomaly_config_t handed to detect_anomaly (data_analyzer.h 29-34), with
\* a warm-up that the fed stream passes.
AnomalyConfigs ==
    [threshold_multiplier : {1, 2}, absolute_threshold : {1, 5},
     window_size : {50}, min_samples_for_analysis : {3}]

\* detect_anomaly on a reading, with the accumulator as it stands (finalized
\* or not) as the baseline. It changes neither argument; its result is kept.
DetectAnomaly ==
    /\ pc = "analyzer"
    /\ \E value \in AnomalyValues, config \in AnomalyConfigs :
        LET data == Reading(Len(vibration_data) + 1, SENSOR_VIBRATION, value,
                            clock)
        IN ret' = [call |-> "detect_anomaly",
                   arg |-> [value |-> value, config |-> config],
                   code |-> 0, average |-> Rat(0, 1),
                   result |-> detect_anomaly(data, stats.vibration, config)]
    /\ UNCHANGED <<logvars, clock, io_ok, appended, phase, running, pc, sess,
                   stats, moving_avg, vibration_data>>

NextAnomaly ==
    \/ InitMovingAverage
    \/ FeedValue
    \/ FinalizeStatistics
    \/ DetectAnomaly

SpecAnomaly == InitAnalyzer /\ [][NextAnomaly]_vars

\* --------------------------------- the analysis pipeline of the bridge loop
\* The values of the readings of a stream, and the configurations of the
\* session: threshold_multiplier 2 or 3, warm-up of 3 or 5 samples.
StreamValues == {1, 10}

StreamConfigs ==
    [threshold_multiplier : {2, 3}, absolute_threshold : {1, 100},
     window_size : {50}, min_samples_for_analysis : {3, 5}]

\* The anomaly_result_t of a reading that was not evaluated (line 841).
NotEvaluated ==
    [is_anomaly |-> 0, severity |-> [kind |-> "zero"],
     detected_at |-> get_current_time(0)]

\* The analysis state of run_bridge_monitoring before the first reading
\* (lines 794-795, 813-814), for some anomaly configuration.
InitPipeline ==
    /\ logger = BlankLogger
    /\ disk = <<>>
    /\ open_count = 0
    /\ peak_open = 0
    /\ rotations = 0
    /\ oob = FALSE
    /\ clock = 0
    /\ io_ok = NoFaults
    /\ appended = <<>>
    /\ phase = "unused"
    /\ ret = [call |-> "init_statistics", evaluated |-> FALSE]
    /\ running = 1
    /\ pc = "pipeline"
    /\ \E config \in StreamConfigs :
        sess = [IdleSession EXCEPT !.mode = "bridge",
                                   !.max_samples = MaxStream,
                                   !.anomaly_config = config]
    /\ stats = [vibration |-> init_statistics, temp |-> init_statistics,
                humidity |-> init_statistics, pressure |-> init_statistics]
    /\ moving_avg = init_moving_average(BlankMovingAverage, 20).ma
    /\ vibration_data = <<>>

\* One reading through lines 831-849 of the bridge loop: stored, fed to the
\* accumulator and the filter, then, past the warm-up gate, evaluated against
\* the finalized accumulator. (log_sensor_data, line 838, touches the logger
\* only.)
BridgeSample ==
    /\ pc = "pipeline"
    /\ sess.sample_count < sess.max_samples
    /\ \E value \in StreamValues :
        LET data == Reading(sess.sample_count + 1, SENSOR_VIBRATION, value, clock)
            updated == update_statistics(stats.vibration, value)
            due == AnalysisDue(sess.sample_count, sess.anomaly_config)
            final == finalize_statistics(updated)
            anomaly == IF due
                       THEN detect_anomaly(data, final, sess.anomaly_config)
                       ELSE NotEvaluated
        IN /\ vibration_data' = Append(vibration_data, data)
           /\ stats' = [stats EXCEPT
                          !.vibration = IF due THEN final ELSE updated]
           /\ moving_avg' = update_moving_average(moving_avg, value).ma
           /\ ret' = [call |-> "sample", evaluated |-> due, result |-> anomaly]
           /\ sess' = [sess EXCEPT
                         !.sample_count = @ + 1,
                         !.anomaly_count =
                             IF anomaly.is_anomaly /= 0 THEN @ + 1 ELSE @]
    /\ UNCHANGED <<logvars, clock, io_ok, appended, phase, running, pc>>

NextPipeline == BridgeSample

SpecPipeline == InitPipeline /\ [][NextPipeline]_vars

\* ----------------------------------- the final analyses of a retained series
\* The values of the retained readings, in units of 1e-6, and the sampling
\* intervals (milliseconds) of the session that retained them: the default of
\* parse_command_line_args and a slower one.
SeriesValues == {-2, -1, 0, 1}
SeriesIntervals == {100, 500}

\* The retained array before the first reading, for some sampling interval.
InitSeries ==
    /\ logger = BlankLogger
    /\ disk = <<>>
    /\ open_count = 0
    /\ peak_open = 0
    /\ rotations = 0
    /\ oob = FALSE
    /\ clock = 0
    /\ io_ok = NoFaults
    /\ appended = <<>>
    /\ phase = "unused"
    /\ ret = [call |-> "none"]
    /\ running = 1
    /\ pc = "series"
    /\ \E interval \in SeriesIntervals :
        sess = [IdleSession EXCEPT !.mode = "bridge", !.interval = interval,
                                   !.max_samples = MaxSeries]
    /\ stats = [vibration |-> init_statistics, temp |-> init_statistics,
                humidity |-> init_statistics, pressure |-> init_statistics]
    /\ moving_avg = BlankMovingAverage
    /\ vibration_data = <<>>

\* A reading is retained (line 831), one sampling interval after the last.
StoreSample ==
    /\ pc = "series"
    /\ sess.sample_count < sess.max_samples
    /\ \E value \in SeriesValues :
        vibration_data' =
            Append(vibration_data,
                   Reading(sess.sample_count + 1, SENSOR_VIBRATION, value,
                           sess.sample_count * sess.interval))
    /\ sess' = [sess EXCEPT !.sample_count = @ + 1]
    /\ ret' = [call |-> "none"]
    /\ UNCHANGED <<logvars, clock, io_ok, appended, phase, running, pc, stats,
                   moving_avg>>

\* analyze_trend on the retained readings, as on line 880 but with any window.
AnalyzeTrend ==
    /\ pc = "series"
    /\ \E window_size \in -1..MaxTrendWindow :
        ret' = [call |-> "analyze_trend", window_size |-> window_size,
                result |-> analyze_trend(vibration_data, sess.sample_count,
                                         window_size)]
    /\ UNCHANGED <<logvars, clock, io_ok, appended, phase, running, pc, sess,
                   stats, moving_avg, vibration_data>>

\* analyze_frequency_spectrum on the values of the retained readings, as on
\* lines 633-640, with both outputs at zero before the call.
AnalyzeFrequencySpectrum ==
    /\ pc = "series"
    /\ ret' = [call |-> "analyze_frequency_spectrum",
               result |-> analyze_frequency_spectrum(Fed, sess.sample_count,
                                                     Rat(0, 1), 0)]
    /\ UNCHANGED <<logvars, clock, io_ok, appended, phase, running, pc, sess,
                   stats, moving_avg, vibration_data>>

NextSeries ==
    \/ StoreSample
    \/ AnalyzeTrend
    \/ AnalyzeFrequencySpectrum

SpecSeries == InitSeries /\ [][NextSeries]_vars

\* ------------------------------ the final bridge analysis of a short session
\* The values of the retained readings, in units of 0.1.
BridgeValues == {0, 3}

\* The retained array of a bridge session before its first reading.
InitBridge ==
    /\ logger = BlankLogger
    /\ disk = <<>>
    /\ open_count = 0
    /\ peak_open = 0
    /\ rotations = 0
    /\ oob = FALSE
    /\ clock = 0
    /\ io_ok = NoFaults
    /\ appended = <<>>
    /\ phase = "unused"
    /\ ret = [call |-> "none"]
    /\ running = 1
    /\ pc = "bridge"
    /\ sess = [IdleSession EXCEPT !.mode = "bridge",
                                  !.max_samples = MaxBridgeSamples]
    /\ stats = [vibration |-> init_statistics, temp |-> init_statistics,
                humidity |-> init_statistics, pressure |-> init_statistics]
    /\ moving_avg = BlankMovingAverage
    /\ vibration_data = <<>>

\* A reading is retained (line 831).
StoreVibration ==
    /\ pc = "bridge"
    /\ sess.sample_count < sess.max_samples
    /\ \E value \in BridgeValues :
        vibration_data' =
            Append(vibration_data,
                   Reading(sess.sample_count + 1, SENSOR_VIBRATION, value, 0))
    /\ sess' = [sess EXCEPT !.sample_count = @ + 1]
    /\ UNCHANGED <<logvars, clock, io_ok, appended, phase, ret, running, pc,
                   stats, moving_avg>>

\* The end of the session, lines 879 and 884: the retained readings are
\* classified and the verdict is printed. The loop may have ended after any
\* number of readings.
FinalBridgeAnalysis ==
    /\ pc = "bridge"
    /\ LET bridge_analysis ==
               analyze_bridge_vibration(vibration_data, sess.sample_count)
       IN ret' = [call |-> "analyze_bridge_vibration",
                  result |-> bridge_analysis,
                  printed |-> print_bridge_analysis(bridge_analysis)]
    /\ pc' = "done"
    /\ UNCHANGED <<logvars, clock, io_ok, appended, phase, running, sess,
                   stats, moving_avg, vibration_data>>

NextBridge ==
    \/ StoreVibration
    \/ FinalBridgeAnalysis

SpecBridge == InitBridge /\ [][NextBridge]_vars

\* ------------------------------------------------- the monitoring loops
\* The process globals a signal handler can reach: the running flag and the
\* logger behind global_logger.
Globals == [running |-> running, global_logger |-> World]

\* Mutant of signal_handler: the handler also shuts the logger down.
signal_handler_cleanup(g) ==
    [running |-> 0, global_logger |-> cleanup_data_logger(g.global_logger)]

\* signal_handler: prints a message and clears the running flag.
signal_handler(g) == [g EXCEPT !.running = 0]

\* Durations (seconds) and sampling intervals (milliseconds) of a session;
\* parse_command_line_args accepts only values above zero.
Durations == 1..MaxDuration
Intervals == {TickMs, 2 * TickMs}

\* Values generate_bridge_vibration_data produces: clamped to [0, 1].
SimulatedVibration == {0, 1}

\* generate_bridge_vibration_data at time ms.
generate_bridge_vibration_data(seq, value, ms) ==
    Reading(seq, SENSOR_VIBRATION, value, ms)

\* generate_environmental_data_set at time ms: temperature, humidity and
\* pressure, in that order; at 20 degrees the humidity is left as generated.
generate_environmental_data_set(seq, ms) ==
    <<Reading(seq, SENSOR_TEMPERATURE, 20, ms),
      Reading(seq + 1, SENSOR_HUMIDITY, 50, ms),
      Reading(seq + 2, SENSOR_PRESSURE, 1013, ms)>>

\* A reading read_sensor_from_hardware parses from "SENSOR:TEMP:21:C:Temperature"
\* and stamps with the current time.
HardwareReading(seq, ms) ==
    [seq |-> seq, type |-> SENSOR_TEMPERATURE, value |-> 21,
     timestamp |-> get_current_time(ms), unit |-> "C",
     description |-> "Temperature"]

\* The default output names of the two modes.
LogFilename(mode) ==
    IF mode = "bridge" THEN <<"bridge", "vibration">>
    ELSE <<"environmental", "data">>

\* The state in which run_bridge_monitoring or run_environmental_monitoring
\* reaches its loop for the first time, at time 0.
InitLoop ==
    \E mode \in {"bridge", "environmental"}, hardware_mode \in {0, 1},
       duration \in Durations, interval \in Intervals :
        LET r == init_data_logger(BlankWorld, LogFilename(mode))
        IN /\ logger = r.w.logger
           /\ disk = r.w.disk
           /\ open_count = r.w.open_count
           /\ peak_open = r.w.peak_open
           /\ rotations = r.w.rotations
           /\ oob = r.w.oob
           /\ clock = 0
           /\ io_ok = NoFaults
           /\ appended = <<>>
           /\ phase = "open"
           /\ ret = r.ret
           /\ running = 1
           /\ pc = "check"
           /\ sess = [mode |-> mode, hardware_mode |-> hardware_mode,
                      duration |-> duration, interval |-> interval,
                      max_samples |-> (duration * 1000) \div interval,
                      start_time |-> get_current_time(0),
                      sample_count |-> 0, anomaly_count |-> 0,
                      anomaly_config |->
                          [threshold_multiplier |-> 3, absolute_threshold |-> 1,
                           window_size |-> 50, min_samples_for_analysis |-> 20],
                      data |-> <<>>, i |-> 0, read_failed |-> FALSE,
                      shown |-> NothingShown]
           /\ stats = [vibration |-> init_statistics, temp |-> init_statistics,
                       humidity |-> init_statistics,
                       pressure |-> init_statistics]
           /\ moving_avg = IF mode = "bridge"
                           THEN init_moving_average(BlankMovingAverage, 20).ma
                           ELSE BlankMovingAverage
           /\ vibration_data = <<>>

InLoop == pc \notin {"api", "done"} /\ phase = "open"

\* Mutant of LoopCheck: the bridge loop tests the running flag only.
LoopCheck_no_capacity ==
    /\ InLoop
    /\ pc = "check"
    /\ pc' = IF running /= 0 THEN "acquire" ELSE "final"
    /\ UNCHANGED <<logvars, clock, io_ok, appended, phase, ret, running, sess,
                   stats, moving_avg, vibration_data>>

\* The loop condition: while (running && sample_count < max_samples) in the
\* bridge loop, while (running) in the environmental loop.
LoopCheck ==
    /\ InLoop
    /\ pc = "check"
    /\ pc' = IF /\ running /= 0
                /\ sess.mode = "bridge" => sess.sample_count < sess.max_samples
             THEN "acquire" ELSE "final"
    /\ UNCHANGED <<logvars, clock, io_ok, appended, phase, ret, running, sess,
                   stats, moving_avg, vibration_data>>

\* Bridge loop, lines 821-831: a reading from the hardware or, when the read
\* fails or in simulated mode, from the simulator; stored in vibration_data.
BridgeAcquire ==
    /\ InLoop
    /\ pc = "acquire"
    /\ sess.mode = "bridge"
    /\ \E hardware_ok \in BOOLEAN, value \in SimulatedVibration :
        LET seq == Len(appended) + 1
            data == IF sess.hardware_mode /= 0 /\ hardware_ok
                    THEN HardwareReading(seq, clock)
                    ELSE generate_bridge_vibration_data(seq, value, clock)
        IN /\ sess' = [sess EXCEPT
                         !.data = <<data>>,
                         !.read_failed = sess.hardware_mode /= 0 /\ ~hardware_ok]
           /\ vibration_data' =
                 [k \in 1..(sess.sample_count + 1) |->
                     IF k = sess.sample_count + 1 THEN data
                     ELSE vibration_data[k]]
    /\ pc' = "update"
    /\ UNCHANGED <<logvars, clock, io_ok, appended, phase, ret, running, stats,
                   moving_avg>>

\* Bridge loop, lines 834-835.
BridgeUpdate ==
    /\ InLoop
    /\ pc = "update"
    /\ stats' = [stats EXCEPT
                   !.vibration = update_statistics(@, sess.data[1].value)]
    /\ moving_avg' = update_moving_average(moving_avg, sess.data[1].value).ma
    /\ pc' = "log"
    /\ UNCHANGED <<logvars, clock, io_ok, appended, phase, ret, running, sess,
                   vibration_data>>

\* Bridge loop, line 838; the return code is not looked at.
BridgeLog ==
    /\ InLoop
    /\ pc = "log"
    /\ LET r == log_sensor_data(World, sess.data[1])
       IN /\ Becomes(r.w)
          /\ appended' = Append(appended, sess.data[1])
          /\ phase' \in AfterStore(r.w)
          /\ ret' = r.ret
    /\ pc' = "detect"
    /\ UNCHANGED <<clock, running, sess, stats, moving_avg,
                   vibration_data>>

\* Bridge loop, lines 841-869: anomaly detection once sample_count has reached
\* min_samples_for_analysis, the status line with the mean and the standard
\* deviation read from the accumulator, the sample counter, the duration test.
BridgeDetect ==
    /\ InLoop
    /\ pc = "detect"
    /\ LET due == AnalysisDue(sess.sample_count, sess.anomaly_config)
           final == finalize_statistics(stats.vibration)
           anomaly == detect_anomaly(sess.data[1], final, sess.anomaly_config)
       IN /\ stats' = IF due THEN [stats EXCEPT !.vibration = final] ELSE stats
          /\ sess' = [sess EXCEPT
                        !.shown = [mean |-> stats'.vibration.mean,
                                   std_deviation |->
                                       stats'.vibration.std_deviation],
                        !.sample_count = @ + 1,
                        !.anomaly_count =
                            IF due /\ anomaly.is_anomaly /= 0 THEN @ + 1 ELSE @]
    /\ pc' = IF time_diff_ms(sess.start_time, get_current_time(clock))
                  >= sess.duration * 1000
             THEN "final" ELSE "sleep"
    /\ UNCHANGED <<logvars, clock, io_ok, appended, phase, ret, running,
                   moving_avg, vibration_data>>

\* Environmental loop, lines 955-969: up to three readings from the hardware
\* or, when none could be read or in simulated mode, the simulator's set.
EnvAcquire ==
    /\ InLoop
    /\ pc = "acquire"
    /\ sess.mode = "environmental"
    /\ \E env_count \in 0..3 :
        LET seq == Len(appended) + 1
            env_data == IF sess.hardware_mode /= 0 /\ env_count > 0
                        THEN [k \in 1..env_count |->
                                 HardwareReading(seq + k - 1, clock)]
                        ELSE generate_environmental_data_set(seq, clock)
        IN sess' = [sess EXCEPT
                      !.data = env_data, !.i = 0,
                      !.read_failed = sess.hardware_mode /= 0 /\ env_count = 0]
    /\ pc' = "process"
    /\ UNCHANGED <<logvars, clock, io_ok, appended, phase, ret, running, stats,
                   moving_avg, vibration_data>>

\* Environmental loop, lines 972-990: one pass of the for loop.
EnvProcess ==
    /\ InLoop
    /\ pc = "process"
    /\ sess.i < Len(sess.data)
    /\ LET data == sess.data[sess.i + 1]
           r == log_sensor_data(World, data)
       IN /\ stats' =
                CASE data.type = SENSOR_TEMPERATURE ->
                       [stats EXCEPT !.temp = update_statistics(@, data.value)]
                  [] data.type = SENSOR_HUMIDITY ->
                       [stats EXCEPT !.humidity = update_statistics(@, data.value)]
                  [] data.type = SENSOR_PRESSURE ->
                       [stats EXCEPT !.pressure = update_statistics(@, data.value)]
                  [] OTHER -> stats
          /\ Becomes(r.w)
          /\ appended' = Append(appended, data)
          /\ phase' \in AfterStore(r.w)
          /\ ret' = r.ret
    /\ sess' = [sess EXCEPT !.i = @ + 1]
    /\ pc' = "process"
    /\ UNCHANGED <<clock, running, moving_avg, vibration_data>>

\* Environmental loop, lines 992-1008: the sample counter and the duration
\* test.
EnvAfter ==
    /\ InLoop
    /\ pc = "process"
    /\ sess.i >= Len(sess.data)
    /\ sess' = [sess EXCEPT !.sample_count = @ + 1]
    /\ pc' = IF time_diff_ms(sess.start_time, get_current_time(clock))
                  >= sess.duration * 1000
             THEN "final" ELSE "sleep"
    /\ UNCHANGED <<logvars, clock, io_ok, appended, phase, ret, running, stats,
                   moving_avg, vibration_data>>

\* Mutant of Sleep: the clock stands still.
Sleep_clock_stands ==
    /\ InLoop
    /\ pc = "sleep"
    /\ clock' = clock
    /\ pc' = "check"
    /\ UNCHANGED <<logvars, io_ok, appended, phase, ret, running, sess, stats,
                   moving_avg, vibration_data>>

\* sleep_ms(interval): usleep returns after the interval, or at once when a
\* signal has been handled meanwhile.
Sleep ==
    /\ InLoop
    /\ pc = "sleep"
    /\ \E slept \in {0, sess.interval} :
        /\ slept = 0 => running = 0
        /\ clock' = clock + slept
    /\ pc' = "check"
    /\ UNCHANGED <<logvars, io_ok, appended, phase, ret, running, sess, stats,
                   moving_avg, vibration_data>>

\* After the loop: the statistics are finalized, the analyses printed, the
\* logger shut down.
Finish ==
    /\ InLoop
    /\ pc = "final"
    /\ stats' = [stats EXCEPT
                   !.vibration = IF sess.mode = "bridge"
                                 THEN finalize_statistics(@) ELSE @,
                   !.temp = IF sess.mode = "bridge"
                            THEN @ ELSE finalize_statistics(@),
                   !.humidity = IF sess.mode = "bridge"
                                THEN @ ELSE finalize_statistics(@),
                   !.pressure = IF sess.mode = "bridge"
                                THEN @ ELSE finalize_statistics(@)]
    /\ Becomes(cleanup_data_logger(World))
    /\ phase' = "closed"
    /\ pc' = "done"
    /\ UNCHANGED <<clock, appended, ret, running, sess, moving_avg,
                   vibration_data>>

\* SIGINT or SIGTERM is delivered: the handler runs between any two steps of
\* the loop.
SignalHandler ==
    /\ InLoop
    /\ LET g == signal_handler(Globals)
       IN /\ running' = g.running
          /\ Becomes(g.global_logger)
    /\ UNCHANGED <<clock, appended, phase, ret, pc, sess, stats,
                   moving_avg, vibration_data>>

\* The steps of the control thread.
LoopStep ==
    \/ LoopCheck
    \/ BridgeAcquire
    \/ BridgeUpdate
    \/ BridgeLog
    \/ BridgeDetect
    \/ EnvAcquire
    \/ EnvProcess
    \/ EnvAfter
    \/ Sleep
    \/ Finish

NextLoop == LoopStep \/ SignalHandler

\* The control thread keeps running as long as it has a step to take: weak
\* fairness of LoopStep, WF_vars(LoopStep), written out with InLoop, the
\* states in which one of the steps of LoopStep is enabled.
LoopFairness == []<>(~InLoop) \/ []<><<LoopStep>>_vars

SpecLoop == InitLoop /\ [][NextLoop]_vars /\ LoopFairness

\* ------------------------------------------- simulated bridge monitoring
\* The simulator's vibration figures in units of 0.05 m/s^2: base_value 0.1,
\* noise_amplitude 0.05 and anomaly_magnitude 2.0 of default_configs, and the
\* 1.0 that is both the ceiling of generate_bridge_vibration_data's clamp and
\* the absolute threshold of run_bridge_monitoring.
SimulatedScale ==
    [base_value |-> 2, noise_amplitude |-> 1, anomaly_magnitude |-> 40,
     one |-> 20]

\* Mutant of clamp: the value is not held below max.
clamp_no_ceiling(value, min, max) == IF value < min THEN min ELSE value

\* clamp of utils.c.
clamp(value, min, max) ==
    IF value < min THEN min ELSE IF value > max THEN max ELSE value

\* What the step counter and rand() put into one reading: the seasonal term
\* (0.02 * sin, 0 at every fifth step), the noise (between -0.05 and 0.05),
\* the anomaly (+-2.0 or none) and the traffic and wind load (0 at step 0,
\* never above 0.035).
SimulatorDraws ==
    [seasonal : {0},
     noise : {-SimulatedScale.noise_amplitude, 0, SimulatedScale.noise_amplitude},
     anomaly : {-SimulatedScale.anomaly_magnitude, 0,
                SimulatedScale.anomaly_magnitude},
     load : {0}]

\* The value of generate_bridge_vibration_data: generate_sensor_data's
\* |base + seasonal + noise + anomaly| of a vibration sensor, plus the size of
\* the load, held between 0.0 and 1.0.
SimulatedValue(draw) ==
    clamp(Abs(SimulatedScale.base_value + draw.seasonal + draw.noise
                  + draw.anomaly)
              + Abs(draw.load),
          0, SimulatedScale.one)

\* The anomaly configuration of run_bridge_monitoring, for the default
\* --threshold and a lower one.
SimulatedConfigs ==
    [threshold_multiplier : {2, 3}, absolute_threshold : {SimulatedScale.one},
     window_size : {50}, min_samples_for_analysis : {20}]

\* The readings a session may have taken after the warm-up.
MaxSimulated == 2

\* The values of a warm-up: 19 equal readings and a last one.
WarmUpValues ==
    {[k \in 1..20 |-> SimulatedValue(IF k < 20 THEN a ELSE b)] :
        a, b \in SimulatorDraws}

\* The accumulator after update_statistics on each of the values.
RECURSIVE StatisticsAfter(_)
StatisticsAfter(values) ==
    IF values = <<>> THEN init_statistics
    ELSE update_statistics(
             StatisticsAfter(SubSeq(values, 1, Len(values) - 1)),
             values[Len(values)])

\* The filter after update_moving_average on each of the values.
RECURSIVE MovingAverageAfter(_)
MovingAverageAfter(values) ==
    IF values = <<>> THEN init_moving_average(BlankMovingAverage, 20).ma
    ELSE update_moving_average(
             MovingAverageAfter(SubSeq(values, 1, Len(values) - 1)),
             values[Len(values)]).ma

\* The analysis state of a simulated run_bridge_monitoring whose warm-up of
\* 20 readings is over: none of them was evaluated (line 842).
InitSimulated ==
    /\ logger = BlankLogger
    /\ disk = <<>>
    /\ open_count = 0
    /\ peak_open = 0
    /\ rotations = 0
    /\ oob = FALSE
    /\ clock = 0
    /\ io_ok = NoFaults
    /\ appended = <<>>
    /\ phase = "unused"
    /\ ret = [call |-> "sample", evaluated |-> FALSE, result |-> NotEvaluated]
    /\ running = 1
    /\ pc = "simulated"
    /\ \E config \in SimulatedConfigs, values \in WarmUpValues :
        /\ sess = [IdleSession EXCEPT !.mode = "bridge",
                                      !.max_samples = Len(values) + MaxSimulated,
                                      !.sample_count = Len(values),
                                      !.anomaly_config = config]
        /\ stats = [vibration |-> StatisticsAfter(values),
                    temp |-> init_statistics,
                    humidity |-> init_statistics,
                    pressure |-> init_statistics]
        /\ moving_avg = MovingAverageAfter(values)
        /\ vibration_data =
              [k \in 1..Len(values) |->
                  generate_bridge_vibration_data(k, values[k], 0)]

\* One simulated reading through lines 826-849 of the bridge loop.
SimulatedSample ==
    /\ pc = "simulated"
    /\ sess.sample_count < sess.max_samples
    /\ \E draw \in SimulatorDraws :
        LET data == generate_bridge_vibration_data(sess.sample_count + 1,
                                                   SimulatedValue(draw), clock)
            updated == update_statistics(stats.vibration, data.value)
            due == AnalysisDue(sess.sample_count, sess.anomaly_config)
            final == finalize_statistics(updated)
            anomaly == IF due
                       THEN detect_anomaly(data, final, sess.anomaly_config)
                       ELSE NotEvaluated
        IN /\ vibration_data' = Append(vibration_data, data)
           /\ stats' = [stats EXCEPT
                          !.vibration = IF due THEN final ELSE updated]
           /\ moving_avg' = update_moving_average(moving_avg, data.value).ma
           /\ ret' = [call |-> "sample", evaluated |-> due, result |-> anomaly]
           /\ sess' = [sess EXCEPT
                         !.sample_count = @ + 1,
                         !.anomaly_count =
                             IF anomaly.is_anomaly /= 0 THEN @ + 1 ELSE @]
    /\ UNCHANGED <<logvars, clock, io_ok, appended, phase, running, pc>>

NextSimulated == SimulatedSample

SpecSimulated == InitSimulated /\ [][NextSimulated]_vars

\* ------------------------------------- sessions that reconfigure the logger
\* The fields configure_logger's caller can set to any int: positive, zero or
\* negative (data_logger.h, logger_config_t).
AnyConfigs ==
    [max_file_size_mb : {-1, 0, 1}, auto_rotate : {1}, buffer_size : {-1, 0, 2},
     flush_interval_ms : {-1, 0, 1000}, directory : {"data"}]

\* A configuration whose three sizes are all above zero.
ValidConfig(config) ==
    /\ config.buffer_size > 0
    /\ config.max_file_size_mb > 0
    /\ config.flush_interval_ms > 0

\* configure_logger with any configuration, on the fresh logger.
ConfigureLoggerAny ==
    /\ pc = "api"
    /\ phase = "open"
    /\ appended = <<>>
    /\ \E config \in AnyConfigs :
        /\ Becomes(configure_logger(World, config))
        /\ ret' = 0
    /\ UNCHANGED <<clock, appended, phase>>
    /\ UNCHANGED loopvars

NextConfigure ==
    \/ ConfigureLoggerAny
    \/ LogSensorData
    \/ CleanupDataLogger
    \/ Tick

SpecConfigure == Init /\ [][NextConfigure]_vars

\* ------------------------------------------- readings parsed from hardware
\* parse_arduino_sensor_data (hardware_interface.c 223-309) on a line
\* "SENSOR:TYPE:VALUE:UNIT:DESCRIPTION", given as its tokens between colons,
\* the newline removed. Unit and description are copied as they are.
ArduinoType(token) ==
    CASE token = "TEMP" -> 0
      [] token = "VIB" -> 1
      [] token = "STRAIN" -> 2
      [] token = "HUM" -> 3
      [] token = "PRESS" -> 4
      [] token = "ACCEL_X" -> 5
      [] token = "ACCEL_Y" -> 6
      [] token = "ACCEL_Z" -> 7
      [] OTHER -> -1

parse_arduino_sensor_data(raw_data) ==
    IF \/ Len(raw_data) < 4
       \/ raw_data[1] /= "SENSOR"
       \/ ArduinoType(raw_data[2]) = -1
    THEN [ret |-> -1]
    ELSE [ret |-> 0, type |-> ArduinoType(raw_data[2]), value |-> raw_data[3],
          unit |-> raw_data[4],
          description |-> IF Len(raw_data) >= 5 THEN raw_data[5]
                          ELSE "Hardware Sensor"]

\* The lines the device sends: the example of the parser's comment, one whose
\* description contains a comma, one without a description and one of an
\* unknown sensor type.
HardwareLines ==
    {<<"SENSOR", "TEMP", 21, "C", "Temperature">>,
     <<"SENSOR", "TEMP", 21, "C", "Lab, north wall">>,
     <<"SENSOR", "VIB", 0, "m/s2">>,
     <<"SENSOR", "LIGHT", 1, "lx", "Light">>}

\* read_sensor_from_hardware (219-240) followed by log_sensor_data, as in the
\* monitoring loops: a line that parses is stamped and logged.
LogHardwareReading ==
    /\ pc = "api"
    /\ phase = "open"
    /\ Len(appended) < MaxReadings
    /\ \E raw_data \in HardwareLines :
        LET parsed == parse_arduino_sensor_data(raw_data)
            data == [seq |-> Len(appended) + 1, type |-> parsed.type,
                     value |-> parsed.value,
                     timestamp |-> get_current_time(clock),
                     unit |-> parsed.unit, description |-> parsed.description]
            r == log_sensor_data(World, data)
        IN IF parsed.ret /= 0
           THEN /\ ret' = -1
                /\ UNCHANGED <<logvars, io_ok, appended, phase>>
           ELSE /\ Becomes(r.w)
                /\ appended' = Append(appended, data)
                /\ phase' \in AfterStore(r.w)
                /\ ret' = r.ret
    /\ UNCHANGED clock
    /\ UNCHANGED loopvars

NextHardware ==
    \/ LogHardwareReading
    \/ LogSensorData
    \/ FlushLoggerBuffer
    \/ CleanupDataLogger
    \/ Tick

SpecHardware == Init /\ [][NextHardware]_vars

\* ------------------------------------------------------- reading files back
\* All lines of the session's files, in file-creation order.
RECURSIVE LinesFrom(_, _)
LinesFrom(d, i) ==
    IF i > Len(d) THEN <<>> ELSE d[i].lines \o LinesFrom(d, i + 1)

AllLines == LinesFrom(disk, 1)

IsData(l) == l.kind = "data"

\* The data records of a sequence of lines.
DataRecords(lines) == SelectSeq(lines, IsData)

\* The records the readings rs serialize to.
CsvLines(rs) == [i \in 1..Len(rs) |-> CsvLine(rs[i])]

\* The rotation threshold in force.
Threshold == logger.config.max_file_size_mb * BytesPerMB

\* The readings a step has to write if it flushes: those buffered before it
\* and the one it appends.
Pending ==
    SubSeq(logger.buffer, 1, logger.buffer_index)
        \o SubSeq(appended', Len(appended) + 1, Len(appended'))

\* The step flushed the buffer into the open file.
Flushed == logger.file /= NULL /\ Pending /= <<>> /\ logger'.buffer_index = 0

\* ------------------------------------------------------------------ claims

\* C1: when a session has been ended by cleanup_data_logger, the data records
\* of all its files, read in file-creation order, are exactly the appended
\* readings, each once and in append order.
C1_RoundTrip ==
    phase = "closed" => DataRecords(AllLines) = CsvLines(appended)

\* C2: in both monitoring loops, a loop-condition check made after the handler
\* has cleared the running flag leaves the loop; the shutdown that follows
\* writes every reading still buffered to the open file and then closes it,
\* so that the files hold every accepted reading; and once the flag is
\* cleared the session does end.
C2_StopsAndFlushesOnSignal ==
    /\ [][/\ (pc = "check" /\ running = 0 /\ pc' /= pc) => pc' = "final"
          /\ (pc = "final" /\ pc' = "done") =>
                /\ disk'[logger.file].lines =
                      disk[logger.file].lines
                          \o CsvLines(SubSeq(logger.buffer, 1, logger.buffer_index))
                /\ logger'.file = NULL
                /\ open_count' = 0
                /\ DataRecords(AllLines)' = CsvLines(appended')]_vars
    /\ (running = 0) ~> (pc = "done")

\* C2 witness: a session stopped by the signal before its duration was over
\* has ended; its only reading, not due for a flush when it was logged, is in
\* the file.
C2_Witness ==
    /\ pc = "done"
    /\ running = 0
    /\ clock < sess.duration * 1000
    /\ Len(appended) = 1
    /\ logger.file = NULL
    /\ DataRecords(AllLines) = CsvLines(appended)

\* C3: a step that clears the running flag changes nothing else: not the
\* statistics, the moving-average window, the sample array, the log buffer or
\* the file state, at whatever point of the loop it is taken.
C3_HandlerOnlyClearsFlag ==
    [][(running /= 0 /\ running' = 0) =>
          UNCHANGED <<logger, disk, open_count, peak_open, rotations, oob,
                      stats, moving_avg, vibration_data, sess, pc, appended,
                      phase, ret, clock, io_ok>>]_vars

\* C3 witness: the flag was cleared in the middle of a loop pass, between the
\* statistics update and the logging of a reading, while an earlier reading
\* sits in the log buffer.
C3_Witness ==
    /\ running = 0
    /\ pc = "log"
    /\ logger.buffer_index > 0
    /\ logger.file /= NULL
    /\ stats.vibration.sample_count = Len(appended) + 1

\* C11: while the logger is open, no reading has been sitting in the buffer
\* for longer than the flush interval.
C11_BoundedStaleness ==
    phase = "open" =>
        \A i \in 1..logger.buffer_index :
            time_diff_ms(logger.buffer[i].timestamp, get_current_time(clock))
                <= logger.config.flush_interval_ms

\* C12: a failed open is fatal and reaches the caller: a session whose first
\* file could not be opened has got -1 from init_data_logger; a call in which
\* the open of rotate_log_file fails returns -1; and no append made while the
\* logger has no file reports success.
C12_OpenFailureReachesCaller ==
    /\ phase = "failed" => ret = -1
    /\ [][/\ (logger.file /= NULL /\ logger'.file = NULL /\ phase' = "open")
                => ret' = -1
          /\ (logger.file = NULL /\ Len(appended') > Len(appended))
                => ret' /= 0]_vars

\* The lines of a sequence whose fprintf succeeds when the upcoming outcomes
\* are q.
RECURSIVE Kept(_, _)
Kept(lines, q) ==
    IF lines = <<>> THEN <<>>
    ELSE (IF NextOutcome(q) THEN <<Head(lines)>> ELSE <<>>)
             \o Kept(Tail(lines), Rest(q))

\* C13: a call that reports success has written all it had to write: a flush
\* every buffered record, a rotation the header of the new file, and
\* init_data_logger the header of the first file.
C13_WriteFailureReachesCaller ==
    /\ (phase = "open" /\ appended = <<>> /\ rotations = 0 /\ ret = 0)
          => disk[1].lines = <<HeaderLine>>
    /\ [][(phase' = "open" /\ ret' = 0) =>
             /\ (Flushed /\ rotations' = rotations) =>
                    disk'[logger.file].lines =
                        disk[logger.file].lines \o CsvLines(Pending)
             /\ (rotations' = rotations + 1) =>
                    disk'[logger'.file].lines = <<HeaderLine>>]_vars

\* The step calls flush_logger_buffer: through log_sensor_data when the
\* flush is due after the insertion, or directly, or through
\* cleanup_data_logger.
FlushCalled ==
    \/ /\ Len(appended') > Len(appended)
       /\ ShouldFlush([logger EXCEPT !.buffer_index = @ + 1],
                      get_current_time(clock))
    \/ /\ appended' = appended
       /\ clock' = clock
       /\ io_ok'.episodes = io_ok.episodes

\* C14: a flush of a non-empty buffer into the open file, some of whose
\* fprintf calls fail, leaves the buffer empty and has put into the file,
\* in order, every buffered record whose fprintf succeeded; the size counter
\* has grown by the bytes of those records and no others.  (A rotation that
\* follows resets the counter, and truncates the file when it reuses its
\* name.)
C14_FlushSkipsFailedRecord ==
    [][(FlushCalled /\ logger.file /= NULL /\ Pending /= <<>>) =>
          LET written == Kept(CsvLines(Pending), io_ok.fprintf)
          IN /\ logger'.buffer_index = 0
             /\ (rotations' = rotations
                    \/ logger'.current_filename /= logger.current_filename)
                   => disk'[logger.file].lines =
                          disk[logger.file].lines \o written
             /\ rotations' = rotations
                   => logger'.current_file_size =
                          logger.current_file_size + FileBytes(written)]_vars

\* C14 witness: of two readings appended, the file holds the second and not
\* the first, whose fprintf failed; the buffer is empty and the size counter
\* counts the header and that one record.
C14_Witness ==
    /\ logger.file /= NULL
    /\ rotations = 0
    /\ io_ok.episodes = 1
    /\ Len(appended) = 2
    /\ logger.buffer_index = 0
    /\ disk[logger.file].lines = <<HeaderLine, CsvLine(appended[2])>>
    /\ logger.current_file_size = HeaderBytes + LineBytes(CsvLine(appended[2]))

\* C15: on a tick on which the hardware could not be read, no reading is
\* produced: the loop has nothing to feed to the statistics, the filter, the
\* sample array or the logger.
C15_NoReadingOnFailedRead ==
    sess.read_failed => sess.data = <<>>

\* Two quotients are the same number.
RatEq(a, b) == a.num * b.den = b.num * a.den

\* Sum of a sequence of integers.
RECURSIVE SumOf(_)
SumOf(vs) == IF vs = <<>> THEN 0 ELSE Head(vs) + SumOf(Tail(vs))

\* The mean and the population variance of a non-empty sequence, computed by
\* scanning it: the variance is the mean of the squared distances from the
\* mean, sum((n*x - S)^2) / n^3 with n the length and S the sum.
ScannedMean(vs) == Rat(SumOf(vs), Len(vs))
ScannedVariance(vs) ==
    LET n == Len(vs)
        S == SumOf(vs)
    IN Rat(SumOf([k \in 1..n |-> (n * vs[k] - S) * (n * vs[k] - S)]), n * n * n)

\* C16: finalize_statistics applied to the accumulator that init_statistics
\* and one update_statistics per value of a sequence have produced gives the
\* length, the sum and the sum of squares of the sequence and, when it is not
\* empty, its smallest and largest value, its mean and its population
\* variance as a scan of the whole sequence computes them.
C16_StatisticsMatchRescan ==
    LET st == finalize_statistics(stats.vibration)
        n == Len(Fed)
    IN /\ st.sample_count = n
       /\ st.sum = SumOf(Fed)
       /\ st.sum_squares = SumOf([k \in 1..n |-> Fed[k] * Fed[k]])
       /\ n > 0 =>
             /\ \A k \in 1..n : st.min <= Fed[k] /\ Fed[k] <= st.max
             /\ \E k \in 1..n : st.min = Fed[k]
             /\ \E k \in 1..n : st.max = Fed[k]
             /\ RatEq(st.mean, ScannedMean(Fed))
             /\ RatEq(st.variance, ScannedVariance(Fed))

\* C16 witness: the accumulator has been finalized after three values, not
\* all equal and one of them negative, and holds their mean and variance.
C16_Witness ==
    /\ pc = "analyzer"
    /\ Fed = <<2, -1, 2>>
    /\ stats.vibration = finalize_statistics(stats.vibration)
    /\ stats.vibration.mean = Rat(3, 3)
    /\ stats.vibration.variance = Rat(18, 9)
    /\ stats.vibration.min = -1
    /\ stats.vibration.max = 2

\* C17: the mean and the standard deviation the status line of the bridge
\* loop has read from the accumulator are the ones its current sample_count,
\* sum and sum_squares give.
C17_StatusLineIsFresh ==
    (/\ sess.mode = "bridge"
     /\ pc \in {"sleep", "check", "final"}
     /\ sess.sample_count > 0)
        => LET st == stats.vibration
               n == st.sample_count
           IN /\ RatEq(sess.shown.mean, Rat(st.sum, n))
              /\ RatEq(sess.shown.std_deviation.sqrt_of,
                       Rat(st.sum_squares * n - st.sum * st.sum, n * n))

\* C18: the value the n-th update_moving_average call on a window of capacity
\* c returns is the mean of the most recent min(n, c) values fed to it.
C18_AverageOfMostRecent ==
    ret.call = "update_moving_average" =>
        LET n == Len(Fed)
            c == moving_avg.buffer_size
            k == IF n < c THEN n ELSE c
        IN RatEq(ret.average, Rat(SumOf(SubSeq(Fed, n - k + 1, n)), k))

\* C18 witness: a window of two has been fed 2, -1 and 0; the call returned
\* -1/2, the mean of -1 and 0, to which the 2 does not contribute.
C18_Witness ==
    /\ ret.call = "update_moving_average"
    /\ moving_avg.buffer_size = 2
    /\ Fed = <<2, -1, 0>>
    /\ ret.average = Rat(-1, 2)

\* C19: once the window exists, the running sum is the sum of the filled
\* slots, sample_count does not exceed buffer_size and the write index is
\* within 0..buffer_size-1; and an update of a full window changes only the
\* slot at the write index, which held the oldest value of the window, and
\* replaces that value by the new one in the sum.
C19_WindowInvariants ==
    /\ [](moving_avg.buffer /= <<>> =>
            /\ moving_avg.sum =
                  SumOf(SubSeq(moving_avg.buffer, 1, moving_avg.sample_count))
            /\ moving_avg.sample_count <= moving_avg.buffer_size
            /\ moving_avg.current_index \in 0..(moving_avg.buffer_size - 1))
    /\ [][(/\ moving_avg.buffer /= <<>>
            /\ moving_avg.sample_count = moving_avg.buffer_size
            /\ Len(vibration_data') > Len(vibration_data)) =>
              LET i == moving_avg.current_index + 1
                  value == vibration_data'[Len(vibration_data')].value
              IN /\ moving_avg.buffer[i] =
                       Fed[Len(Fed) - moving_avg.buffer_size + 1]
                 /\ moving_avg'.buffer = [moving_avg.buffer EXCEPT ![i] = value]
                 /\ moving_avg'.sum =
                       moving_avg.sum - moving_avg.buffer[i] + value
                 /\ moving_avg'.sample_count = moving_avg.sample_count]_vars

\* C19 witness: a full window of two has wrapped around: fed 2, 0 and -1, it
\* holds -1 where the 2 was, and 0; the sum is -1 and the write index 1.
C19_Witness ==
    /\ Fed = <<2, 0, -1>>
    /\ moving_avg.buffer = <<-1, 0>>
    /\ moving_avg.sample_count = 2
    /\ moving_avg.current_index = 1
    /\ moving_avg.sum = -1

\* C20: init_moving_average with a window size of zero or less returns -1 and
\* creates no window; with a window size above zero it returns 0 and leaves
\* a window of that many zeroed slots with count 0, sum 0 and write index 0.
C20_InitMovingAverage ==
    [][ret'.call = "init_moving_average" =>
          IF ret'.arg <= 0
          THEN /\ ret'.code = -1
               /\ moving_avg'.buffer = <<>>
               /\ moving_avg' = moving_avg
          ELSE /\ ret'.code = 0
               /\ moving_avg'.buffer_size = ret'.arg
               /\ moving_avg'.buffer = [k \in 1..ret'.arg |-> 0]
               /\ moving_avg'.sample_count = 0
               /\ moving_avg'.sum = 0
               /\ moving_avg'.current_index = 0]_vars

\* C20 witness: init_moving_average was called with a window size of zero,
\* returned -1, and there is still no window.
C20_Witness ==
    /\ ret.call = "init_moving_average"
    /\ ret.arg = 0
    /\ ret.code = -1
    /\ moving_avg = BlankMovingAverage

\* C21: a call of configure_logger changes the configuration in force only to
\* one whose buffer_size, max_file_size_mb and flush_interval_ms are all above
\* zero; given any other, it leaves the previous configuration in force.
C21_InvalidConfigRejected ==
    [][logger'.config /= logger.config => ValidConfig(logger'.config)]_vars

\* The last call was detect_anomaly, on the accumulator as it stands now.
Detected == ret.call = "detect_anomaly"

\* The baseline of the last detect_anomaly call has passed the warm-up.
PastWarmUp ==
    stats.vibration.sample_count >= ret.arg.config.min_samples_for_analysis

\* (value - mean)^2 of the last detect_anomaly call, as a quotient.
DeviationSquared ==
    LET mean == stats.vibration.mean
        d == ret.arg.value * mean.den - mean.num
    IN Rat(d * d, mean.den * mean.den)

\* |value - mean| > threshold_multiplier * std_deviation, on the squares.
StatisticalFires ==
    LET variance == stats.vibration.std_deviation.sqrt_of
        k == ret.arg.config.threshold_multiplier
    IN DeviationSquared.num * variance.den
           > k * k * variance.num * DeviationSquared.den

\* |value| > absolute_threshold.
AbsoluteFires == Abs(ret.arg.value) > ret.arg.config.absolute_threshold

\* C22: while the baseline has fewer samples than min_samples_for_analysis,
\* detect_anomaly returns is_anomaly 0 and severity 0 for every value, the
\* extreme outlier included.
C22_NothingDuringWarmUp ==
    (Detected /\ ~PastWarmUp)
        => /\ ret.result.is_anomaly = 0
           /\ ret.result.severity.kind = "zero"

\* C22 witness: the outlier 100 was evaluated against a baseline of two
\* samples and was not flagged.
C22_Witness ==
    /\ Detected
    /\ stats.vibration.sample_count = 2
    /\ ret.arg.value = 100
    /\ ret.result.is_anomaly = 0

\* C23: past the warm-up, detect_anomaly reports a statistical anomaly exactly
\* when |value - mean| > threshold_multiplier * std_deviation, and then the
\* severity is |value - mean| / std_deviation (compared on the squares:
\* severity^2 * variance = (value - mean)^2).
C23_StatisticalAnomaly ==
    (Detected /\ PastWarmUp)
        => /\ ret.result.severity.kind = "statistical" <=> StatisticalFires
           /\ StatisticalFires
                => LET sq == ret.result.severity.square
                       variance == stats.vibration.std_deviation.sqrt_of
                   IN /\ ret.result.is_anomaly = 1
                      /\ sq.num * variance.num * DeviationSquared.den
                            = DeviationSquared.num * sq.den * variance.den

\* C23 witness: a statistical anomaly against a baseline whose standard
\* deviation is not zero, and a value within the threshold of such a baseline.
C23_Witness ==
    /\ Detected
    /\ PastWarmUp
    /\ stats.vibration.std_deviation.sqrt_of.num > 0
    /\ StatisticalFires
    /\ ret.result.severity.kind = "statistical"
    /\ ret.result.severity.square.num > 0

\* C24: past the warm-up, is_anomaly is set whenever |value| exceeds
\* absolute_threshold, whatever the statistical check says; when both checks
\* fire the severity is the statistical one; the ratio |value| /
\* absolute_threshold is the severity only when the statistical check did not
\* fire, and it is the severity then.
C24_AbsoluteThreshold ==
    (Detected /\ PastWarmUp)
        => /\ AbsoluteFires => ret.result.is_anomaly = 1
           /\ (AbsoluteFires /\ StatisticalFires)
                => ret.result.severity.kind = "statistical"
           /\ ret.result.severity.kind = "absolute"
                <=> (AbsoluteFires /\ ~StatisticalFires)
           /\ ret.result.severity.kind = "absolute"
                => ret.result.severity.ratio
                     = Rat(Abs(ret.arg.value), ret.arg.config.absolute_threshold)
           /\ ret.result.is_anomaly = 1 <=> (AbsoluteFires \/ StatisticalFires)

\* C24 witness: both checks fired on the outlier and the severity is the
\* statistical one.
C24_Witness ==
    /\ Detected
    /\ PastWarmUp
    /\ AbsoluteFires
    /\ StatisticalFires
    /\ stats.vibration.std_deviation.sqrt_of.num > 0
    /\ ret.result.severity.kind = "statistical"

\* The stream of C25 and the values handled so far.
Scenario == <<1, 1, 1, 1, 1, 10>>

IsPrefix(s, t) == Len(s) <= Len(t) /\ \A k \in 1..Len(s) : s[k] = t[k]

\* The session runs with threshold_multiplier 2 and a warm-up of 5 samples and
\* has handled a non-empty prefix of the scenario.
InScenario ==
    /\ pc = "pipeline"
    /\ sess.anomaly_config.threshold_multiplier = 2
    /\ sess.anomaly_config.min_samples_for_analysis = 5
    /\ Fed /= <<>>
    /\ IsPrefix(Fed, Scenario)

\* A severity above the integer bound.
SeverityAbove(severity, bound) ==
    CASE severity.kind = "zero" -> FALSE
      [] severity.kind = "statistical" ->
            severity.square.num > bound * bound * severity.square.den
      [] severity.kind = "absolute" ->
            severity.ratio.num > bound * severity.ratio.den

\* C25: in the stream 1,1,1,1,1,10 with threshold_multiplier 2 and
\* min_samples_for_analysis 5, none of the first five readings is evaluated or
\* flagged, and the sixth is evaluated and flagged with a severity above 2.
C25_ScenarioFlagsSixth ==
    InScenario
        => /\ Len(Fed) <= 5
                => /\ ~ret.evaluated
                   /\ ret.result.is_anomaly = 0
                   /\ sess.anomaly_count = 0
           /\ Len(Fed) = 6
                => /\ ret.evaluated
                   /\ ret.result.is_anomaly = 1
                   /\ SeverityAbove(ret.result.severity, 2)
                   /\ sess.anomaly_count = 1

\* C25 witness: the whole stream has been handled and its last reading flagged.
C25_Witness ==
    /\ InScenario
    /\ Fed = Scenario
    /\ ret.result.is_anomaly = 1
    /\ ret.result.severity.kind = "statistical"
    /\ ret.result.severity.square.den > 0

\* The last call was analyze_trend on the retained readings.
TrendAnalyzed == ret.call = "analyze_trend"

\* The window of the last analyze_trend call is at least 2 and is filled.
EnoughForTrend ==
    /\ ret.window_size >= 2
    /\ sess.sample_count >= ret.window_size

\* C26: analyze_trend returns the neutral result (direction "stable", slope 0,
\* correlation 0, confidence 0) whenever window_size is below 2 or there are
\* fewer samples than window_size.
C26_NeutralWhenTooFew ==
    (TrendAnalyzed /\ ~EnoughForTrend)
        => /\ ret.result.trend_direction = "stable"
           /\ ret.result.slope = Rat(0, 1)
           /\ ret.result.correlation = [sign |-> 0, sqrt_of |-> Rat(0, 1)]
           /\ ret.result.confidence = [sqrt_of |-> Rat(0, 1)]

\* C26 witness: two rising readings analysed with a window of three gave the
\* neutral result.
C26_Witness ==
    /\ TrendAnalyzed
    /\ Fed = <<0, 1>>
    /\ ret.window_size = 3
    /\ ret.result = TrendNeutral

\* C27: with enough samples, the result of analyze_trend is that of the most
\* recent window_size samples alone; the direction is "increasing" when the
\* slope is above the deadband 1e-6, "decreasing" when it is below -1e-6 and
\* "stable" otherwise; and the confidence is |correlation| and lies in [0, 1].
C27_TrendOfRecentWindow ==
    (TrendAnalyzed /\ EnoughForTrend)
        => LET w == ret.window_size
               n == sess.sample_count
               recent == SubSeq(vibration_data, n - w + 1, n)
               slope == ret.result.slope
               up == slope.num * slope.den
                       > TrendDeadband * slope.den * slope.den
               down == slope.num * slope.den
                         < -(TrendDeadband * slope.den * slope.den)
           IN /\ ret.result = analyze_trend(recent, w, w)
              /\ ret.result.trend_direction
                   = (IF up THEN "increasing"
                      ELSE IF down THEN "decreasing" ELSE "stable")
              /\ ret.result.confidence.sqrt_of
                   = ret.result.correlation.sqrt_of
              /\ ret.result.confidence.sqrt_of.num >= 0
              /\ ret.result.confidence.sqrt_of.num
                   <= ret.result.confidence.sqrt_of.den

\* The last call was analyze_frequency_spectrum, on at least 4 values.
SpectrumAnalyzed ==
    /\ ret.call = "analyze_frequency_spectrum"
    /\ sess.sample_count >= 4

\* C28: for at least 4 values, the frequency estimate is the number of strict
\* local maxima divided by the duration of the values in seconds, the value
\* count times the sampling interval of the session, whatever that interval.
C28_FrequencyOverDuration ==
    SpectrumAnalyzed
        => LET peak_count ==
                   Cardinality(PeakPositions(Fed, sess.sample_count))
           IN /\ ret.result.ret = 0
              /\ RatEq(ret.result.dominant_frequency,
                       Rat(peak_count * 1000,
                           sess.sample_count * sess.interval))

\* C29: whenever the values have a strict local maximum, the amplitude
\* returned is the largest of the peak values, negative peaks included.
C29_AmplitudeIsLargestPeak ==
    (SpectrumAnalyzed /\ PeakPositions(Fed, sess.sample_count) /= {})
        => ret.result.amplitude
             = MaxOf({Fed[i] : i \in PeakPositions(Fed, sess.sample_count)})

\* C30: the verdict analyze_bridge_vibration returns for fewer than 10
\* samples is none of the tier codes Safe (0), Warning (1) and Critical (2),
\* and the consumer of the status does not read it as Safe.
C30_InsufficientIsNoTier ==
    (pc = "done" /\ sess.sample_count < 10)
        => /\ ret.result.safety_status \notin {0, 1, 2}
           /\ ret.printed.status /= "SAFE (Green)"

\* The session has ended and its 10 or more readings were classified.
Classified == pc = "done" /\ sess.sample_count >= 10

\* The values a retained reading is raised to, in units of 0.1.
RaisedValues == BridgeValues \cup {8}

\* The next larger value a reading can be raised to, if any.
NextAbove(x) ==
    {v \in RaisedValues : v > x /\ \A u \in RaisedValues : u > x => v <= u}

\* The retained readings with the reading at position i replaced by value.
Raised(i, value) ==
    [vibration_data EXCEPT ![i] = [vibration_data[i] EXCEPT !.value = value]]

\* The tier of a series by the rule of C31, on values in units of 0.1:
\* rms < 0.1 is sum(value^2) < count, rms < 0.3 is sum(value^2) < 9 * count,
\* and peak is the largest value, not below the 0.0 the search starts from.
TierOf(series) ==
    LET count == Len(series)
        sum_squares == SumFirst([i \in 0..(count - 1) |->
                                    series[i + 1].value * series[i + 1].value],
                                count)
        peak == MaxOf({0} \cup {series[i].value : i \in 1..count})
        safe == sum_squares < count /\ peak < 3
        warning == ~safe /\ sum_squares < 9 * count /\ peak < 8
    IN IF safe THEN 0 ELSE IF warning THEN 1 ELSE 2

SplitAtCommas(s) ==
    CASE s = "Lab, north wall" -> <<"Lab", " north wall">>
      [] OTHER -> <<s>>

\* The fields a reader of the CSV file finds in a data record: the text
\* "%s,%s,%.6f,%s,%s" split at its commas. The timestamp, the type name and
\* the number hold no comma.
CsvFields(l) ==
    <<l.timestamp, l.sensor_type, l.value>>
        \o SplitAtCommas(l.unit) \o SplitAtCommas(l.description)

\* C32: every data record in the files has exactly five comma-separated
\* fields: timestamp, sensor type, value, unit, description.
C32_FiveFields ==
    \A i \in 1..Len(AllLines) :
        IsData(AllLines[i])
            => /\ Len(CsvFields(AllLines[i])) = 5
               /\ CsvFields(AllLines[i])[4] = AllLines[i].unit
               /\ CsvFields(AllLines[i])[5] = AllLines[i].description

\* C33: in a bridge session the capacity of the retained array is
\* duration * 1000 / interval, the number of readings stored never exceeds
\* it, and the array changes only by a reading stored at the next index, the
\* readings before it staying as they are.
C33_RetainedArrayBounded ==
    /\ [](sess.mode = "bridge"
            => /\ sess.max_samples = (sess.duration * 1000) \div sess.interval
               /\ Len(vibration_data) <= sess.max_samples)
    /\ [][(sess.mode = "bridge" /\ vibration_data' /= vibration_data)
            => /\ Len(vibration_data) = sess.sample_count
               /\ Len(vibration_data') = sess.sample_count + 1
               /\ SubSeq(vibration_data', 1, sess.sample_count) = vibration_data
               /\ vibration_data'[sess.sample_count + 1] = sess'.data[1]]_vars

\* C33 witness: a bridge session that was not stopped ended with its retained
\* array filled to its capacity of at least two readings.
C33_Witness ==
    /\ pc = "done"
    /\ sess.mode = "bridge"
    /\ running = 1
    /\ sess.max_samples >= 2
    /\ Len(vibration_data) = sess.max_samples

C35_IndexWithinAllocation ==
    phase \in {"open", "crashed"}
        => /\ logger.buffer_index <= logger.buffer_cap
           /\ ~oob

\* C36: the file name a rotation produces differs from every file name the
\* session has produced before, so that opening it for writing creates a new
\* file and every file already written keeps its lines.
C36_FreshFileNames ==
    [][rotations' = rotations + 1
          => /\ \A i \in 1..Len(disk) :
                    /\ disk[i].name /= logger'.current_filename
                    /\ IsPrefix(disk[i].lines, disk'[i].lines)
             /\ Len(disk') = Len(disk) + 1
      ]_vars

\* C37: between logger operations, and after cleanup_data_logger, the
\* logger's sample_count is the number of data records in all the files of
\* the session plus the number of readings in the buffer; a rotation does not
\* reset it.
C37_CountIsWrittenPlusBuffered ==
    /\ [](phase \in {"open", "closed"}
            => logger.sample_count
                   = Len(DataRecords(AllLines)) + logger.buffer_index)
    /\ [][rotations' /= rotations
             => logger'.sample_count
                    = logger.sample_count + Len(appended') - Len(appended)
         ]_vars

\* C38: in the bridge loop a reading is evaluated exactly when it is at least
\* the (m+1)-th of the session, m being min_samples_for_analysis; when it is,
\* it has been folded into the accumulator and the accumulator finalized
\* before detect_anomaly ran, so that the baseline it was compared with
\* counts it and has the mean of all the readings so far, it included.
C38_BaselineIncludesReading ==
    ret.call = "sample"
        => LET n == Len(Fed)
               m == sess.anomaly_config.min_samples_for_analysis
           IN /\ ret.evaluated <=> n >= m + 1
              /\ ret.evaluated
                    => /\ stats.vibration.sample_count = n
                       /\ stats.vibration.sum = SumOf(Fed)
                       /\ RatEq(stats.vibration.mean, ScannedMean(Fed))
                       /\ ret.result = detect_anomaly(vibration_data[n],
                                                      stats.vibration,
                                                      sess.anomaly_config)

\* C38 witness: with a warm-up of 3 the fourth reading is the first evaluated,
\* against a baseline of four readings whose mean it has moved, and flagged.
C38_Witness ==
    /\ ret.call = "sample"
    /\ sess.anomaly_config.min_samples_for_analysis = 3
    /\ Fed = <<1, 1, 1, 10>>
    /\ ret.evaluated
    /\ stats.vibration.sample_count = 4
    /\ RatEq(stats.vibration.mean, Rat(13, 4))
    /\ ret.result.is_anomaly = 1

\* C39: every reading of generate_bridge_vibration_data has a value within
\* [0, 1]; so in simulated bridge monitoring, whose absolute threshold is 1.0,
\* no evaluated reading exceeds the absolute threshold, and a reading is
\* flagged only by the statistical test, with a statistical severity.
C39_SimulatedAnomaliesAreStatistical ==
    /\ \A k \in 1..Len(vibration_data) :
           /\ vibration_data[k].value >= 0
           /\ vibration_data[k].value <= SimulatedScale.one
    /\ sess.anomaly_config.absolute_threshold = SimulatedScale.one
    /\ (ret.evaluated /\ ret.result.is_anomaly /= 0)
          => /\ Abs(vibration_data[Len(vibration_data)].value)
                   <= sess.anomaly_config.absolute_threshold
             /\ ret.result.severity.kind = "statistical"
    /\ ret.result.severity.kind /= "absolute"

\* C39 witness: a simulated anomaly, 2.0 above the base and held at 1.0, was
\* evaluated after a quiet warm-up and flagged as a statistical anomaly.
C39_Witness ==
    /\ pc = "simulated"
    /\ ret.evaluated
    /\ vibration_data[Len(vibration_data)].value = SimulatedScale.one
    /\ vibration_data[1].value = SimulatedScale.base_value
    /\ ret.result.is_anomaly = 1
    /\ ret.result.severity.kind = "statistical"

\* C40: both monitoring loops terminate and the session reaches
\* cleanup_data_logger: every session ends, with the logger shut down; the
\* bridge loop makes at most duration * 1000 / interval passes and the
\* environmental loop, each of whose passes but the last is followed by a
\* sleep of one interval, at most one more than the intervals it takes to
\* cover the duration; a pass begins only while the
\* stop flag is set, and the loop goes on to sleep only while the duration
\* has not elapsed.
C40_LoopsTerminate ==
    /\ <>(pc = "done")
    /\ [](pc = "done"
            => /\ phase = "closed"
               /\ logger.file = NULL
               /\ open_count = 0)
    /\ [](sess.mode = "bridge" => sess.sample_count <= sess.max_samples)
    /\ [](sess.mode = "environmental"
            => sess.sample_count
                   <= ((sess.duration * 1000 + sess.interval - 1)
                           \div sess.interval) + 1)
    /\ [][/\ (pc = "check" /\ pc' = "acquire") => running /= 0
          /\ (pc /= "sleep" /\ pc' = "sleep")
                => time_diff_ms(sess.start_time, get_current_time(clock))
                       < sess.duration * 1000]_vars

\* C40 witness: an environmental session that no signal stopped has ended
\* with its duration elapsed, after as many passes as the duration allows.
C40_Witness ==
    /\ pc = "done"
    /\ sess.mode = "environmental"
    /\ running = 1
    /\ clock >= sess.duration * 1000
    /\ sess.sample_count
           = ((sess.duration * 1000 + sess.interval - 1) \div sess.interval) + 1
    /\ sess.sample_count >= 3
    /\ phase = "closed"

\* C4: every file name of the session has the base name of the first file.
C4_BaseNamePreserved ==
    \A i \in 1..Len(disk) : disk[i].name.base = disk[1].name.base

\* C5: in every file the header is the first line and every later line is a
\* data record: no data record precedes the header.
C5_HeaderFirst ==
    \A i \in 1..Len(disk) :
        LET l == disk[i].lines
        IN l /= <<>> =>
              /\ l[1] = HeaderLine
              /\ \A k \in 2..Len(l) : l[k].kind = "data"

\* C5 witness: a file opened by a rotation holds the header and a data record.
C5_Witness ==
    /\ rotations >= 1
    /\ \E i \in 2..Len(disk) :
          /\ Len(disk[i].lines) >= 2
          /\ disk[i].lines[1] = HeaderLine
          /\ disk[i].lines[2].kind = "data"

\* C6, as stated: a step in which rotate_log_file opens a new file leaves that
\* file with just the header and the size counter at zero.
C6_SizeZeroAfterRotate ==
    [][(rotations' = rotations + 1 /\ logger'.file /= NULL) =>
          /\ disk'[logger'.file].lines = <<HeaderLine>>
          /\ logger'.current_file_size = 0]_vars

\* C6, amended: a step in which rotate_log_file opens a new file leaves that
\* file with just the header, and the size counter, reset to zero before the
\* header was written, at the header's 45 bytes: the size of the new file.
C6_SizeIsHeaderAfterRotate ==
    [][(rotations' = rotations + 1 /\ logger'.file /= NULL) =>
          /\ disk'[logger'.file].lines = <<HeaderLine>>
          /\ logger'.current_file_size = HeaderBytes
          /\ logger'.current_file_size = FileBytes(disk'[logger'.file].lines)]_vars

\* C6 witness: a rotation has just opened a file that holds only the header,
\* while an earlier file holds data.
C6_Witness ==
    /\ rotations >= 1
    /\ logger.file /= NULL
    /\ disk[logger.file].lines = <<HeaderLine>>
    /\ logger.current_file_size = HeaderBytes
    /\ \E i \in 1..Len(disk) : Len(disk[i].lines) >= 2

\* Serialized size of the first k appended readings.
CumBytes(k) == FileBytes(CsvLines(SubSeq(appended, 1, k)))

\* The appended records cross the rotation threshold once: their cumulative
\* size exceeds it, and does not reach it a second time.
CrossesOnce ==
    /\ CumBytes(Len(appended)) > Threshold
    /\ CumBytes(Len(appended)) <= 2 * Threshold

\* The reading with which the cumulative size first exceeds the threshold.
CrossIdx ==
    CHOOSE k \in 1..Len(appended) :
        CumBytes(k) > Threshold /\ CumBytes(k - 1) <= Threshold

\* C7, as stated: in an ended session with auto-rotation on, whose appended
\* records cross the threshold once and whose files all have different names,
\* exactly one rotation has occurred and the first file holds, after the
\* header, exactly the records appended before the crossing one.
C7_PreRotationFileStopsBeforeCrossing ==
    (/\ phase = "closed"
     /\ logger.config.auto_rotate /= 0
     /\ Len(disk) = rotations + 1
     /\ CrossesOnce)
        => /\ rotations = 1
           /\ disk[1].lines =
                 <<HeaderLine>> \o CsvLines(SubSeq(appended, 1, CrossIdx - 1))

\* C7, amended: a step rotates exactly when auto-rotation is on and it flushes
\* the buffer into a file whose size, header included, the flushed records
\* take past the threshold, and then it rotates once; the flush puts every
\* buffered record, the crossing one and those buffered with it included,
\* into the pre-rotation file, which the rotation leaves that way unless the
\* new file takes the same name, when it is left with the fresh header only.
C7_RotationAfterCrossingFlush ==
    [][LET f == logger.file
           size == logger.current_file_size + FileBytes(CsvLines(Pending))
       IN IF Flushed /\ logger.config.auto_rotate /= 0 /\ size > Threshold
          THEN /\ rotations' = rotations + 1
               /\ disk'[f].lines =
                     IF logger'.current_filename = logger.current_filename
                     THEN <<HeaderLine>>
                     ELSE disk[f].lines \o CsvLines(Pending)
          ELSE /\ rotations' = rotations
               /\ Flushed => disk'[f].lines = disk[f].lines \o CsvLines(Pending)
      ]_vars

\* C7 witness: with auto-rotation on, one rotation has happened and the
\* pre-rotation file holds the header, the record before the crossing one and
\* the crossing record, while the new file holds the fresh header.
C7_Witness ==
    /\ logger.config.auto_rotate /= 0
    /\ rotations = 1
    /\ Len(disk) = 2
    /\ Len(appended) >= 2
    /\ CumBytes(1) <= Threshold
    /\ CumBytes(2) > Threshold
    /\ disk[1].lines = <<HeaderLine>> \o CsvLines(SubSeq(appended, 1, 2))
    /\ disk[2].lines[1] = HeaderLine

\* C8: while a file is open, current_file_size is the number of bytes the
\* completed writes have put into it, header included; buffered readings add
\* nothing.
C8_SizeIsBytesWritten ==
    logger.file /= NULL =>
        logger.current_file_size = FileBytes(disk[logger.file].lines)

\* C8 witness: the open file holds data records while readings are buffered.
C8_Witness ==
    /\ logger.file /= NULL
    /\ logger.buffer_index > 0
    /\ Len(disk[logger.file].lines) >= 2
    /\ logger.current_file_size = FileBytes(disk[logger.file].lines)

\* C9: never more than one log file open for writing, during a call as well
\* as between calls.
C9_OneOpenFile ==
    /\ peak_open <= 1
    /\ open_count = (IF logger.file /= NULL THEN 1 ELSE 0)

\* C9 witness: a rotation has happened and exactly one file is open.
C9_Witness ==
    /\ rotations >= 1
    /\ logger.file /= NULL
    /\ open_count = 1
    /\ Len(disk) >= 2

====
